---- MODULE Spec2Model ----
(***************************************************************************)
(* A model of the Tenlixor translation client engine                       *)
(* (sdk/typescript/src/tenlixor.ts): construction, the load of a language  *)
(* through the two-tier cache and the Transport, the resolver t, the DOM    *)
(* scanner, and the public operations init, setLanguage, reload and scan.  *)
(*                                                                         *)
(* JavaScript runs the code between two suspensions atomically, so every   *)
(* asynchronous operation is cut where it yields to other tasks:           *)
(*   - the call runs up to `await fetch(...)`, or, on a cache hit, up to   *)
(*     the await of the settled promise of fetchStrings;                   *)
(*   - when the Transport call ends, the rest of fetchStrings and the rest *)
(*     of the operation run as microtasks of one task, before any other    *)
(*     task: they are one step;                                            *)
(*   - after a cache hit the operation resumes in a microtask of the task  *)
(*     that made the call: code of that task can make further calls before *)
(*     it, so the resumption is a step of its own.                         *)
(***************************************************************************)
EXTENDS Integers, Sequences, FiniteSets, TLC

(* ---------------------------------------------------------------- bounds *)

\* Calls of init / setLanguage / reload made over a whole run.
MaxCalls == 2

\* The clock (Date.now()) runs from 0 to MaxTime.
MaxTime == 1

\* Subscribers registered with on() at any one time, over the three events.
MaxListeners == 2

(* ------------------------------------------------------------ JS values *)

\* JavaScript's undefined and null, as values of their own.
Undefined == "<undefined>"
Null == "<null>"

\* !x for the strings and absent values the engine tests.
Falsy(x) == x \in {Undefined, Null, ""}

\* The empty object {} / the empty Map.
EmptyMap == [x \in {} |-> x]

\* The property names every plain object inherits from Object.prototype, one
\* of them: obj["constructor"] is the function Object when obj has no property
\* of that name of its own.
ObjectPrototype == {"constructor"}
Inherited == "<function Object>"

\* obj[k] of a plain object ({...}): the object's own property, else the one
\* it inherits, else undefined.
Get(obj, k) ==
    IF k \in DOMAIN obj THEN obj[k]
    ELSE IF k \in ObjectPrototype THEN Inherited
    ELSE Undefined

\* obj[k] = v
Put(obj, k, v) == [x \in (DOMAIN obj) \cup {k} |-> IF x = k THEN v ELSE obj[x]]

\* delete obj[k] / Map.delete / removeItem
Del(obj, k) == [x \in (DOMAIN obj) \ {k} |-> obj[x]]

(* --------------------------------------------------------------- inputs *)

LangCodes == {"en", "tr"}
Keys == {"k1", "k2", "k3", "k4"}

\* The events of the engine, and the event names on() and off() are called
\* with: those, a name the engine does not know, a name of Object.prototype.
Events == {"loaded", "error", "language-changed"}
EventArgs == Events \cup {"unknown"} \cup ObjectPrototype

\* The callbacks on() and off() are called with: the functions f and g, of
\* which g throws when it is called, and a value that is not a function.
Callbacks == {"f", "g"}
Throwing == {"g"}
CallbackArgs == Callbacks \cup {Undefined}

\* The keys t may be asked for: those, and a name of Object.prototype.
AllKeys == Keys \cup ObjectPrototype

\* The language codes t may be given: none, a loaded one, one never loaded.
LangArgs == LangCodes \cup {Undefined, "de", "fr"}

\* config.cacheTTL || 300000
DefaultCacheTTL == 300000

\* The bodies the server answers with (TenlixorResponseData): the value of a
\* resource may be the empty string, a language block may come without
\* resources, a body may carry several languages, and tenant_id may be missing.
PayloadEn == [tenant_id |-> "t1",
    languages |-> << [code |-> "en", resources |-> << [key |-> "k1", value |-> "Welcome" ] >> ],
                     [code |-> "de", resources |-> << [key |-> "k4", value |-> "Vier" ] >> ] >> ]
PayloadTr == [tenant_id |-> Undefined,
    languages |-> << [code |-> "tr", resources |-> << [key |-> "k2", value |-> "" ],
                                                       [key |-> "k3", value |-> "Merhaba" ] >> ],
                     [code |-> "de"],
                     [code |-> "it", resources |-> << >>] >> ]
Payloads == [en |-> PayloadEn, tr |-> PayloadTr]

\* The body of en after its translations have been revised on the server: the
\* value of k1 has changed.
PayloadEnRevised == [tenant_id |-> "t1",
    languages |-> << [code |-> "en", resources |-> << [key |-> "k1", value |-> "Hello" ] >> ],
                     [code |-> "de", resources |-> << [key |-> "k4", value |-> "Vier" ] >> ] >> ]

\* No body: stands where a body is wanted and there is none.
NoData == [tenant_id |-> Undefined, languages |-> << >>]

\* The body of a response that refuses the request for languageCode.
RefusedBody(languageCode) ==
    [tenant_id |-> "t9",
     languages |-> << [code |-> languageCode,
                       resources |-> << [key |-> "k1", value |-> "Refused" ] >> ] >> ]

\* The configurations handed to the constructor (TenlixorConfig); an optional
\* property that is not given is absent from the record.
Configs ==
    { [token |-> "tok", tenantSlug |-> "acme"],
      [token |-> "tok", tenantSlug |-> "acme", language |-> "tr", cacheTTL |-> 1],
      [token |-> "tok", tenantSlug |-> "acme", fallbackLanguage |-> "tr", cacheTTL |-> 1],
      [token |-> "tok", tenantSlug |-> "acme", cache |-> FALSE],
      [token |-> "tok", tenantSlug |-> "acme", autoScan |-> FALSE],
      [token |-> "", tenantSlug |-> "acme"],
      [tenantSlug |-> "acme"],
      [token |-> "tok", tenantSlug |-> ""],
      [token |-> "tok"] }

(* ---------------------------------------------------------------- state *)

VARIABLES
    exists,           \* an engine instance has been constructed on this page
    ctorError,        \* the Error the last constructor call threw, or Null
    config,           \* this.config
    tenant_id,        \* this.data.tenant_id
    languages,        \* this.data.languages
    isInitialized,    \* this.isInitialized
    currentLanguage,  \* this.currentLanguage
    isLoading,        \* this.isLoading
    memoryCache,      \* this.memoryCache
    listeners,        \* this.listeners
    localStorage,     \* the durable store, shared by every instance
    lsAvailable,      \* typeof localStorage !== 'undefined'
    document,         \* the document of the page, or NoDocument
    now,              \* Date.now()
    calls,            \* the calls of init / setLanguage / reload in flight, oldest first
    done,             \* the call that ran to its end in the latest step, or NoCall
    nCalls,           \* calls of init / setLanguage / reload made over the whole run
    pipe,             \* lastKey, lastLanguage, lastValue of the TxrTranslatePipe instance
    provider,         \* the state of TenlixorProvider (useState), or NoProvider
    observed,         \* what a subscriber of language-changed has seen of the calls in flight
    revision          \* the revision of the translations the server holds

engine == <<exists, ctorError, config, tenant_id, languages, isInitialized,
            currentLanguage, isLoading, memoryCache>>
vars == <<exists, ctorError, config, tenant_id, languages, isInitialized,
          currentLanguage, isLoading, memoryCache, listeners, localStorage,
          lsAvailable, document, now, calls, done, nCalls, pipe, provider, observed,
          revision>>

\* What is outside the engine: the framework adapters, the subscriber that
\* follows language-changed and the server.
outside == <<pipe, provider, observed, revision>>

\* The body the server holds for languageCode: the translations of en have
\* been revised when revision is 2.
Served(languageCode) ==
    IF revision = 2 /\ languageCode = "en" THEN PayloadEnRevised
    ELSE Payloads[languageCode]

\* What the Transport call for languageCode can end in: fetch rejects (status
\* 0), a non-2xx status, a body with success false, or the successful body of
\* the language asked for, as the server holds it.
Responses(languageCode) ==
    { [status |-> 0,   success |-> FALSE, data |-> NoData],
      [status |-> 401, success |-> FALSE, data |-> RefusedBody(languageCode)],
      [status |-> 500, success |-> FALSE, data |-> NoData],
      [status |-> 200, success |-> FALSE, data |-> RefusedBody(languageCode)],
      [status |-> 200, success |-> TRUE, data |-> Served(languageCode)] }
AllResponses == UNION {Responses(l) : l \in LangCodes}

\* No response: the Transport call has not ended, or was not made.
NoResponse == [status |-> -1, success |-> FALSE, data |-> NoData]

\* A call of a public asynchronous operation. pc is where the call stands: "awaitFetch" (at `await fetch(...)`), "resume"
\* (fetchStrings has settled, the operation has not yet resumed after its
\* await) or "done". loadResult, error: how fetchStrings settled. outcome: how
\* the operation's promise settled. emitted: what the call has called emit
\* with, in order. source, transport, cacheReads, data and response record
\* what the load of the call did: where the merged body came from, the calls
\* of fetch, the calls of getFromCache, the merged body, what the Transport
\* call ended in. readyBefore: isReady() when init was called. thrown: the
\* message of the Error that the latest emit of the call has thrown, or Null.
\* value: the string a call of t or of transform has returned.
NoCall == [ op |-> "none", pc |-> "done", languageCode |-> Undefined,
            previousLanguage |-> Undefined, loadResult |-> "none", error |-> Null,
            outcome |-> "none", emitted |-> << >>, source |-> "none", transport |-> 0,
            cacheReads |-> 0, data |-> NoData, response |-> NoResponse,
            readyBefore |-> FALSE, thrown |-> Null, value |-> Undefined ]

NoConfig == [token |-> Undefined, tenantSlug |-> Undefined, language |-> Undefined,
             cache |-> FALSE, cacheTTL |-> 0, fallbackLanguage |-> Undefined,
             autoScan |-> FALSE]

\* An element and a text node of the document. key, resolved and lang are the
\* attributes data-txr-key, data-txr-resolved and data-txr-lang (Undefined:
\* the attribute is absent). text is the data of a text node; of an element it
\* is the content written through textContent, which has replaced the
\* element's children, and Undefined as long as nothing was written.
Element(tag, parent, key) ==
    [ kind |-> "element", tag |-> tag, parent |-> parent, key |-> key,
      resolved |-> FALSE, lang |-> Undefined, text |-> Undefined ]
TextNode(parent, data) ==
    [ kind |-> "text", tag |-> "#text", parent |-> parent, key |-> Undefined,
      resolved |-> FALSE, lang |-> Undefined, text |-> data ]

\* The page, as the nodes of document.body in document order; parent is the
\* index of the parent node, 0 for body:
\*   <body> <h1 data-txr-key="k1">Title</h1> <p>k3</p>
\*          <div> k1 <b>k3</b></div> <script>k1</script> </body>
Page ==
    << Element("body", 0, Undefined),
       Element("h1", 1, "k1"), TextNode(2, "Title"),
       Element("p", 1, Undefined), TextNode(4, "k3"),
       Element("div", 1, Undefined), TextNode(6, " k1 "),
       Element("b", 6, Undefined), TextNode(8, "k3"),
       Element("script", 1, Undefined), TextNode(10, "k1") >>

\* typeof document === 'undefined'
NoDocument == [readyState |-> Undefined, listeners |-> 0, body |-> << >>]

\* The document of a page that is loading; listeners counts the listeners of
\* DOMContentLoaded that init has added.
LoadingDocument == [readyState |-> "loading", listeners |-> 0, body |-> Page]

\* The TxrTranslatePipe instance as constructed: lastValue = '', lastKey = '',
\* lastLanguage = ''.
NoPipe == [lastValue |-> "", lastKey |-> "", lastLanguage |-> ""]

\* No TenlixorProvider is mounted. stage: none, then mounted (rendered), effect
\* (initializeSdk has called init), subscribed (the three listeners are
\* registered); the other fields are the useState values of the context.
NoProvider == [stage |-> "none", currentLanguage |-> Undefined, availableLanguages |-> {},
               isReady |-> FALSE, isLoading |-> FALSE, error |-> Null]

\* The subscriber has seen nothing. before: getLanguage() when the first of
\* the calls in flight was made; to: the `to` of the last language-changed
\* event emitted since, or Null.
NothingObserved == [before |-> Undefined, to |-> Null]

\* this.listeners = { loaded: [], error: [], 'language-changed': [] }
NoListeners == [event \in Events |-> << >>]

\* The host is a browser, with localStorage and a document, or it has neither.
Init ==
    /\ exists = FALSE
    /\ ctorError = Null
    /\ config = NoConfig
    /\ tenant_id = Null
    /\ languages = EmptyMap
    /\ isInitialized = FALSE
    /\ currentLanguage = Undefined
    /\ isLoading = FALSE
    /\ memoryCache = EmptyMap
    /\ listeners = NoListeners
    /\ localStorage = EmptyMap
    /\ lsAvailable \in BOOLEAN
    /\ document = IF lsAvailable THEN LoadingDocument ELSE NoDocument
    /\ now = 0
    /\ calls = << >>
    /\ done = NoCall
    /\ nCalls = 0
    /\ pipe = NoPipe
    /\ provider = NoProvider
    /\ observed = NothingObserved
    /\ revision = 1

(* ---------------------------------------------------------- constructor *)

\* The resolved configuration (this.config = {...}).
ResolveConfig(c) ==
    [ token |-> Get(c, "token"),
      tenantSlug |-> Get(c, "tenantSlug"),
      language |-> IF Falsy(Get(c, "language")) THEN "en" ELSE c.language,
      cache |-> IF "cache" \in DOMAIN c THEN c.cache # FALSE ELSE TRUE,
      cacheTTL |-> IF "cacheTTL" \in DOMAIN c /\ c.cacheTTL # 0
                   THEN c.cacheTTL ELSE DefaultCacheTTL,
      fallbackLanguage |-> IF Falsy(Get(c, "fallbackLanguage")) THEN "en"
                           ELSE c.fallbackLanguage,
      autoScan |-> IF "autoScan" \in DOMAIN c THEN c.autoScan # FALSE ELSE TRUE ]

\* ConfigError without the check of tenantSlug.
ConfigError_TokenOnly(c) ==
    IF Falsy(Get(c, "token")) THEN "Tenlixor: API token is required" ELSE Null

\* The Error the constructor throws for c, or Null.
ConfigError(c) ==
    IF Falsy(Get(c, "token")) THEN "Tenlixor: API token is required"
    ELSE IF Falsy(Get(c, "tenantSlug")) THEN "Tenlixor: tenantSlug is required"
    ELSE Null

\* new Tenlixor(c) on a freshly loaded page: the page's previous instance, its
\* in-process cache, its pending calls and what the scanner wrote are gone,
\* localStorage is kept.
Construct(c) ==
    /\ ctorError' = ConfigError(c)
    /\ exists' = (ConfigError(c) = Null)
    /\ config' = IF ConfigError(c) = Null THEN ResolveConfig(c) ELSE NoConfig
    /\ tenant_id' = Null
    /\ languages' = EmptyMap
    /\ isInitialized' = FALSE
    /\ currentLanguage' = IF ConfigError(c) = Null THEN ResolveConfig(c).language ELSE Undefined
    /\ isLoading' = FALSE
    /\ memoryCache' = EmptyMap
    /\ listeners' = NoListeners
    /\ document' = IF document = NoDocument THEN NoDocument ELSE LoadingDocument
    /\ calls' = << >>
    /\ done' = NoCall
    /\ UNCHANGED <<localStorage, lsAvailable, now, nCalls>>

(* ---------------------------------------------------------- cache store *)

\* `txr_${tenantId}_${languageCode}` with tenantId = this.data.tenant_id || 'default';
\* the three parts of the string are kept apart.
getCacheKey(tid, languageCode) ==
    <<"txr", IF Falsy(tid) THEN "default" ELSE tid, languageCode>>

\* JSON.stringify / JSON.parse of a cache entry: the text is kept as a tagged
\* value, parse gives back the entry of a text stringify made.
JSONstringify(entry) == <<"json", entry>>
JSONparse(text) == text[2]

Miss == [hit |-> FALSE, data |-> NoData]

\* Fresh with an entry of exactly the age cacheTTL still taken as fresh.
Fresh_Inclusive(entry, ignoreTTL) ==
    ignoreTTL \/ now - entry.timestamp <= config.cacheTTL

\* ignoreTTL || Date.now() - entry.timestamp < this.config.cacheTTL
Fresh(entry, ignoreTTL) ==
    ignoreTTL \/ now - entry.timestamp < config.cacheTTL

\* getFromCache over the stores ls and mem: localStorage first, then the
\* in-memory map; hit is FALSE for the null it returns.
getFromCache(ls, mem, tid, languageCode, ignoreTTL) ==
    LET cacheKey == getCacheKey(tid, languageCode)
    IN  IF /\ lsAvailable
           /\ cacheKey \in DOMAIN ls
           /\ Fresh(JSONparse(ls[cacheKey]), ignoreTTL)
        THEN [hit |-> TRUE, data |-> JSONparse(ls[cacheKey]).data]
        ELSE IF cacheKey \in DOMAIN mem /\ Fresh(mem[cacheKey], ignoreTTL)
        THEN [hit |-> TRUE, data |-> mem[cacheKey].data]
        ELSE Miss

\* saveToCache: localStorage after it. setItemThrows: localStorage.setItem
\* throws (the quota is exceeded), which the catch swallows.
saveToCacheLS(ls, tid, languageCode, data, setItemThrows) ==
    IF lsAvailable /\ ~setItemThrows
    THEN Put(ls, getCacheKey(tid, languageCode),
             JSONstringify([timestamp |-> now, data |-> data]))
    ELSE ls

\* saveToCache: the in-memory map after it; the set is skipped when setItem
\* threw before it.
saveToCacheMem(mem, tid, languageCode, data, setItemThrows) ==
    IF lsAvailable /\ setItemThrows
    THEN mem
    ELSE Put(mem, getCacheKey(tid, languageCode), [timestamp |-> now, data |-> data])

\* clearCache: the two stores after it.
clearCacheLS(ls, tid, languageCode) ==
    IF lsAvailable THEN Del(ls, getCacheKey(tid, languageCode)) ELSE ls
clearCacheMem(mem, tid, languageCode) ==
    Del(mem, getCacheKey(tid, languageCode))

(* ------------------------------------------------------------ data store *)

\* KeyValueMap that leaves out the resources of an empty value.
RECURSIVE KeyValueMap_SkipEmpty(_, _)
KeyValueMap_SkipEmpty(resources, n) ==
    IF n = 0 THEN EmptyMap
    ELSE IF Falsy(resources[n].value) THEN KeyValueMap_SkipEmpty(resources, n - 1)
    ELSE Put(KeyValueMap_SkipEmpty(resources, n - 1), resources[n].key, resources[n].value)

\* The keyValueMap of a language block: resources.forEach, a later resource
\* of the same key overwrites an earlier one.
RECURSIVE KeyValueMap(_, _)
KeyValueMap(resources, n) ==
    IF n = 0 THEN EmptyMap
    ELSE Put(KeyValueMap(resources, n - 1), resources[n].key, resources[n].value)

\* MergeBlocks that adds the pairs of a block to the table the code has.
RECURSIVE MergeBlocks_Union(_, _, _)
MergeBlocks_Union(table, blocks, n) ==
    IF n = 0 THEN table
    ELSE LET before == MergeBlocks_Union(table, blocks, n - 1)
             old == IF blocks[n].code \in DOMAIN before THEN before[blocks[n].code]
                    ELSE EmptyMap
             more == IF "resources" \in DOMAIN blocks[n]
                     THEN KeyValueMap(blocks[n].resources, Len(blocks[n].resources))
                     ELSE EmptyMap
         IN  Put(before, blocks[n].code,
                 [x \in (DOMAIN old) \cup (DOMAIN more) |->
                     IF x \in DOMAIN more THEN more[x] ELSE old[x]])

\* data.languages.forEach: the table of each block's code is replaced.
RECURSIVE MergeBlocks(_, _, _)
MergeBlocks(table, blocks, n) ==
    IF n = 0 THEN table
    ELSE Put(MergeBlocks(table, blocks, n - 1), blocks[n].code,
             IF "resources" \in DOMAIN blocks[n]
             THEN KeyValueMap(blocks[n].resources, Len(blocks[n].resources))
             ELSE EmptyMap)

\* mergeData that keeps no table but those of the body.
mergeData_Overwrite(table, data) ==
    IF "languages" \in DOMAIN data
    THEN MergeBlocks(EmptyMap, data.languages, Len(data.languages))
    ELSE table

\* mergeData: this.data.languages after it.
mergeData(table, data) ==
    IF "languages" \in DOMAIN data
    THEN MergeBlocks(table, data.languages, Len(data.languages))
    ELSE table

(* -------------------------------------------------------------- resolver *)

\* t without its last step: a key found nowhere resolves to undefined.
t_NoIdentity(key, languageCode) ==
    LET lang == IF Falsy(languageCode) THEN currentLanguage ELSE languageCode
        fb == config.fallbackLanguage
    IN  IF lang \in DOMAIN languages /\ ~Falsy(Get(languages[lang], key))
        THEN Get(languages[lang], key)
        ELSE IF lang # fb /\ fb \in DOMAIN languages
        THEN Get(languages[fb], key)
        ELSE Undefined

\* t(key, languageCode); languageCode is Undefined when it is not given.
t(key, languageCode) ==
    LET lang == IF Falsy(languageCode) THEN currentLanguage ELSE languageCode
        fb == config.fallbackLanguage
    IN  IF lang \in DOMAIN languages /\ ~Falsy(Get(languages[lang], key))
        THEN Get(languages[lang], key)
        ELSE IF /\ lang # fb
                /\ fb \in DOMAIN languages
                /\ ~Falsy(Get(languages[fb], key))
        THEN Get(languages[fb], key)
        ELSE key

\* t(key, lang) as the scanner calls it, over the table the step has built:
\* this.data.languages is table when the scan runs.
tOver(table, key, lang) ==
    LET fb == config.fallbackLanguage
    IN  IF lang \in DOMAIN table /\ ~Falsy(Get(table[lang], key))
        THEN Get(table[lang], key)
        ELSE IF /\ lang # fb
                /\ fb \in DOMAIN table
                /\ ~Falsy(Get(table[fb], key))
        THEN Get(table[fb], key)
        ELSE key

getLanguage == currentLanguage
getAvailableLanguages == DOMAIN languages
isReady == isInitialized

(* ----------------------------------------------------------- DOM scanner *)

\* The elements whose content the text pass does not enter.
SkippedTags == {"script", "style", "noscript"}

\* String.prototype.trim, over the texts of the page: the one text with white
\* space around it is " k1 ".
Trim(s) == IF s = " k1 " THEN "k1" ELSE s

\* The node n is no longer in the document: textContent was written to one of
\* its ancestors.
RECURSIVE Removed(_, _)
Removed(nodes, n) ==
    LET p == nodes[n].parent
    IN  p # 0 /\ (nodes[p].text # Undefined \/ Removed(nodes, p))

\* scanTextNodes reaches the node n: it returns at a resolved element and
\* does not enter script, style and noscript.
RECURSIVE Entered(_, _)
Entered(nodes, n) ==
    LET p == nodes[n].parent
    IN  \/ p = 0
        \/ /\ ~nodes[p].resolved
           /\ nodes[p].tag \notin SkippedTags
           /\ nodes[p].text = Undefined
           /\ Entered(nodes, p)

\* scanElement that does not set data-txr-lang on the element it resolves.
scanElement_NoLangMarker(nodes, n, table, lang) ==
    LET element == nodes[n]
    IN  IF element.kind # "element" \/ element.key = Undefined \/ Removed(nodes, n)
        THEN nodes
        ELSE IF ~Falsy(element.key) /\ ~element.resolved
        THEN [nodes EXCEPT ![n].text = tOver(table, element.key, lang),
                           ![n].resolved = TRUE]
        ELSE IF ~Falsy(element.key) /\ element.lang # lang
        THEN [nodes EXCEPT ![n].text = tOver(table, element.key, lang),
                           ![n].lang = lang]
        ELSE nodes

\* scan, first pass, for the n-th node: what the callback of
\* elementsWithAttr.forEach does to it. What it writes to an element that an
\* earlier write has removed from the document is not kept.
scanElement(nodes, n, table, lang) ==
    LET element == nodes[n]
    IN  IF element.kind # "element" \/ element.key = Undefined \/ Removed(nodes, n)
        THEN nodes
        ELSE IF ~Falsy(element.key) /\ ~element.resolved
        THEN [nodes EXCEPT ![n].text = tOver(table, element.key, lang),
                           ![n].resolved = TRUE,
                           ![n].lang = lang]
        ELSE IF ~Falsy(element.key) /\ element.lang # lang
        THEN [nodes EXCEPT ![n].text = tOver(table, element.key, lang),
                           ![n].lang = lang]
        ELSE nodes

\* scan, first pass: the elements with the attribute data-txr-key among the
\* first n nodes, in document order.
RECURSIVE scanAttributes(_, _, _, _)
scanAttributes(nodes, n, table, lang) ==
    IF n = 0 THEN nodes
    ELSE CHOOSE result \in { scanElement(d, n, table, lang) :
                               d \in {scanAttributes(nodes, n - 1, table, lang)} } : TRUE

\* scanTextNodes for the n-th node when it is a text node that is reached.
scanTextNode(start, nodes, n, table, lang) ==
    LET node == nodes[n]
        text == Trim(node.text)
    IN  IF /\ node.kind = "text"
           /\ Entered(start, n)
           /\ ~Falsy(text)
           /\ lang \in DOMAIN table
           /\ ~Falsy(Get(table[lang], text))
        THEN [nodes EXCEPT ![n].text = tOver(table, text, lang),
                           ![node.parent].resolved = TRUE,
                           ![node.parent].key = text,
                           ![node.parent].lang = lang]
        ELSE nodes

\* scan, second pass: scanTextNodes(document.body, lang) over the first n
\* nodes. An element is marked by its text child after scanTextNodes entered
\* it, so what is entered is decided on start, the nodes as the pass began.
RECURSIVE scanTextNodes(_, _, _, _, _)
scanTextNodes(start, nodes, n, table, lang) ==
    IF n = 0 THEN nodes
    ELSE CHOOSE result \in { scanTextNode(start, d, n, table, lang) :
                               d \in {scanTextNodes(start, nodes, n - 1, table, lang)} } : TRUE

\* scan without the return for an engine that is not initialized.
scan_NoReadyCheck(doc, table, lang, initialized) ==
    IF doc = NoDocument
    THEN doc
    ELSE CHOOSE result \in
            { [doc EXCEPT !.body = scanTextNodes(marked, marked, Len(marked), table, lang)] :
                marked \in {scanAttributes(doc.body, Len(doc.body), table, lang)} } : TRUE

\* scan(): the document doc after it, this.data.languages being table,
\* this.currentLanguage lang and this.isInitialized initialized.
scan(doc, table, lang, initialized) ==
    IF ~initialized \/ doc = NoDocument
    THEN doc
    ELSE CHOOSE result \in
            { [doc EXCEPT !.body = scanTextNodes(marked, marked, Len(marked), table, lang)] :
                marked \in {scanAttributes(doc.body, Len(doc.body), table, lang)} } : TRUE

\* The scan of init when autoScan is set: put off to DOMContentLoaded while
\* the document is loading.
autoScan(doc, table, lang) ==
    IF ~config.autoScan \/ doc = NoDocument
    THEN doc
    ELSE IF doc.readyState = "loading"
    THEN [doc EXCEPT !.listeners = @ + 1]
    ELSE scan(doc, table, lang, TRUE)

\* The listeners of DOMContentLoaded run: k times scan().
RECURSIVE RunListeners(_, _)
RunListeners(doc, k) ==
    IF k = 0 THEN doc
    ELSE scan(RunListeners(doc, k - 1), languages, currentLanguage, isInitialized)

(* ------------------------------------------------------------- event bus *)

\* The callbacks emit calls up to the first that throws, that one included.
RECURSIVE UpToThrow(_)
UpToThrow(subscribers) ==
    IF subscribers = << >> THEN << >>
    ELSE IF Head(subscribers) \in Throwing THEN <<Head(subscribers)>>
    ELSE <<Head(subscribers)>> \o UpToThrow(Tail(subscribers))

\* emit without the try around the call of the callback: the Error of a
\* callback ends the forEach and leaves emit.
emit_NoCatch(c, event, data) ==
    LET invoked == IF event \in DOMAIN listeners
                   THEN UpToThrow(listeners[event]) ELSE << >>
    IN  [c EXCEPT !.emitted = Append(c.emitted, [type |-> event, data |-> data,
                                                 invoked |-> invoked]),
                  !.thrown = IF \E n \in DOMAIN invoked : invoked[n] \in Throwing
                             THEN "listener failed" ELSE Null]

\* emit(event, data) made by the call c: the event joins what c has emitted,
\* with the callbacks of this.listeners[event] that were called, in the order
\* of the calls. The Error of a callback is caught and logged: every callback
\* is called and nothing is thrown.
emit(c, event, data) ==
    [c EXCEPT !.emitted = Append(c.emitted,
                                 [type |-> event, data |-> data,
                                  invoked |-> IF event \in DOMAIN listeners
                                              THEN listeners[event] ELSE << >>]),
              !.thrown = Null]

(* ----------------------------------------------------------------- calls *)

\* The record of a call made now.
Call(op, pc, languageCode, previousLanguage, loadResult, source, data) ==
    [ NoCall EXCEPT
      !.op = op,
      !.pc = pc,
      !.languageCode = languageCode,
      !.previousLanguage = previousLanguage,
      !.loadResult = loadResult,
      !.outcome = IF pc = "done" THEN "returned" ELSE "pending",
      !.source = source,
      !.transport = IF pc = "awaitFetch" THEN 1 ELSE 0,
      !.cacheReads = IF source = "none" \/ ~config.cache THEN 0 ELSE 1,
      !.data = data,
      !.readyBefore = (op = "init" /\ isInitialized) ]

\* The early return of init (isLoading) and of setLanguage (same language).
NoOpCall(op, languageCode) ==
    Call(op, "done", languageCode, currentLanguage, "none", "none", NoData)

\* fetchStrings that calls fetch without looking into the cache first.
StartFetchStrings_AlwaysFetch(op, languageCode, previousLanguage, ls, mem) ==
    Call(op, "awaitFetch", languageCode, previousLanguage, "pending", "network", NoData)

\* The synchronous start of fetchStrings(languageCode) over the stores ls and
\* mem: a fresh cache entry settles it at once, otherwise fetch is called.
StartFetchStrings(op, languageCode, previousLanguage, ls, mem) ==
    LET cached == IF config.cache
                  THEN getFromCache(ls, mem, tenant_id, languageCode, FALSE)
                  ELSE Miss
    IN  IF cached.hit
        THEN Call(op, "resume", languageCode, previousLanguage, "ok", "cache", cached.data)
        ELSE Call(op, "awaitFetch", languageCode, previousLanguage, "pending", "network", NoData)

\* this.data.languages after the synchronous start of the call c.
TableAfterStart(c) ==
    IF c.pc = "resume" THEN mergeData(languages, c.data) ELSE languages

CanCall == exists /\ nCalls < MaxCalls

\* init() without the early return on isLoading.
InitCall_NoGuard ==
    /\ UNCHANGED listeners
    /\ CanCall
    /\ nCalls' = nCalls + 1
    /\ LET c == StartFetchStrings("init", currentLanguage, currentLanguage,
                                  localStorage, memoryCache)
       IN  /\ isLoading' = TRUE
           /\ calls' = Append(calls, c)
           /\ languages' = TableAfterStart(c)
           /\ done' = NoCall
    /\ UNCHANGED <<exists, ctorError, config, tenant_id, isInitialized, currentLanguage,
                   memoryCache, localStorage, lsAvailable, document, now>>

\* init(), up to its first await.
InitCall ==
    /\ UNCHANGED listeners
    /\ CanCall
    /\ nCalls' = nCalls + 1
    /\ IF isLoading
       THEN /\ done' = NoOpCall("init", currentLanguage)
            /\ UNCHANGED <<isLoading, languages, calls>>
       ELSE LET c == StartFetchStrings("init", currentLanguage, currentLanguage,
                                       localStorage, memoryCache)
            IN  /\ isLoading' = TRUE
                /\ calls' = Append(calls, c)
                /\ languages' = TableAfterStart(c)
                /\ done' = NoCall
    /\ UNCHANGED <<exists, ctorError, config, tenant_id, isInitialized, currentLanguage,
                   memoryCache, localStorage, lsAvailable, document, now>>

\* setLanguage without the early return for the current language.
SetLanguageCall_NoGuard(languageCode) ==
    /\ UNCHANGED listeners
    /\ CanCall
    /\ nCalls' = nCalls + 1
    /\ LET c == StartFetchStrings("setLanguage", languageCode, currentLanguage,
                                  localStorage, memoryCache)
       IN  /\ currentLanguage' = languageCode
           /\ calls' = Append(calls, c)
           /\ languages' = TableAfterStart(c)
           /\ done' = NoCall
    /\ UNCHANGED <<exists, ctorError, config, tenant_id, isInitialized, isLoading,
                   memoryCache, localStorage, lsAvailable, document, now>>

\* setLanguage(languageCode), up to its first await.
SetLanguageCall(languageCode) ==
    /\ UNCHANGED listeners
    /\ CanCall
    /\ nCalls' = nCalls + 1
    /\ IF languageCode = currentLanguage
       THEN /\ done' = NoOpCall("setLanguage", languageCode)
            /\ UNCHANGED <<currentLanguage, languages, calls>>
       ELSE LET c == StartFetchStrings("setLanguage", languageCode, currentLanguage,
                                       localStorage, memoryCache)
            IN  /\ currentLanguage' = languageCode
                /\ calls' = Append(calls, c)
                /\ languages' = TableAfterStart(c)
                /\ done' = NoCall
    /\ UNCHANGED <<exists, ctorError, config, tenant_id, isInitialized, isLoading,
                   memoryCache, localStorage, lsAvailable, document, now>>

\* reload(), up to its first await.
ReloadCall ==
    /\ UNCHANGED listeners
    /\ CanCall
    /\ nCalls' = nCalls + 1
    /\ LET ls == IF config.cache
                 THEN clearCacheLS(localStorage, tenant_id, currentLanguage)
                 ELSE localStorage
           mem == IF config.cache
                  THEN clearCacheMem(memoryCache, tenant_id, currentLanguage)
                  ELSE memoryCache
           c == StartFetchStrings("reload", currentLanguage, currentLanguage, ls, mem)
       IN  /\ localStorage' = ls
           /\ memoryCache' = mem
           /\ calls' = Append(calls, c)
           /\ languages' = TableAfterStart(c)
    /\ done' = NoCall
    /\ UNCHANGED <<exists, ctorError, config, tenant_id, isInitialized, currentLanguage,
                   isLoading, lsAvailable, document, now>>

\* The message of the Error fetchStrings throws for the response r.
ErrorMessage(r) ==
    IF r.status = 0 THEN "Failed to fetch"
    ELSE IF r.status = 401 THEN "UNAUTHORIZED: Invalid API token"
    ELSE IF r.status # 200 THEN "HTTP 500: Internal Server Error"
    ELSE "API returned success: false"

\* SettledCall with the catch reading the cache without ignoreTTL.
SettledCall_FreshOnly(c, r) ==
    LET stale == IF config.cache
                 THEN getFromCache(localStorage, memoryCache, tenant_id, c.languageCode, FALSE)
                 ELSE Miss
    IN  IF r.status = 200 /\ r.success
        THEN [c EXCEPT !.pc = "resume", !.loadResult = "ok", !.data = r.data,
                       !.response = r]
        ELSE IF stale.hit
        THEN [c EXCEPT !.pc = "resume", !.loadResult = "ok", !.source = "stale",
                       !.data = stale.data, !.response = r,
                       !.cacheReads = c.cacheReads + 1]
        ELSE [c EXCEPT !.pc = "resume", !.loadResult = "failed", !.source = "none",
                       !.error = ErrorMessage(r), !.response = r,
                       !.cacheReads = c.cacheReads + (IF config.cache THEN 1 ELSE 0)]

\* SettledCall whose catch looks into the cache whatever config.cache is.
SettledCall_StaleAlways(c, r) ==
    LET stale == getFromCache(localStorage, memoryCache, tenant_id, c.languageCode, TRUE)
    IN  IF r.status = 200 /\ r.success
        THEN [c EXCEPT !.pc = "resume", !.loadResult = "ok", !.data = r.data,
                       !.response = r]
        ELSE IF stale.hit
        THEN [c EXCEPT !.pc = "resume", !.loadResult = "ok", !.source = "stale",
                       !.data = stale.data, !.response = r,
                       !.cacheReads = c.cacheReads + 1]
        ELSE [c EXCEPT !.pc = "resume", !.loadResult = "failed", !.source = "none",
                       !.error = ErrorMessage(r), !.response = r,
                       !.cacheReads = c.cacheReads + 1]

\* The call c after fetchStrings has settled on the response r: the body is
\* merged, or the catch falls back on a cache entry of any age, or rethrows.
SettledCall(c, r) ==
    LET stale == IF config.cache
                 THEN getFromCache(localStorage, memoryCache, tenant_id, c.languageCode, TRUE)
                 ELSE Miss
    IN  IF r.status = 200 /\ r.success
        THEN [c EXCEPT !.pc = "resume", !.loadResult = "ok", !.data = r.data,
                       !.response = r]
        ELSE IF stale.hit
        THEN [c EXCEPT !.pc = "resume", !.loadResult = "ok", !.source = "stale",
                       !.data = stale.data, !.response = r,
                       !.cacheReads = c.cacheReads + 1]
        ELSE [c EXCEPT !.pc = "resume", !.loadResult = "failed", !.source = "none",
                       !.error = ErrorMessage(r), !.response = r,
                       !.cacheReads = c.cacheReads + (IF config.cache THEN 1 ELSE 0)]

\* A call that has run to its end.
Finished(c, outcome) == [c EXCEPT !.pc = "done", !.outcome = outcome]

\* The calls in flight without the i-th.
Without(i) == SubSeq(calls, 1, i - 1) \o SubSeq(calls, i + 1, Len(calls))

\* InitResume with isInitialized set whatever the load ended in.
InitResume_AlwaysReady(c, i, table) ==
    /\ isInitialized' = TRUE
    /\ IF c.loadResult = "ok"
       THEN /\ document' = autoScan(document, table, currentLanguage)
            /\ done' = Finished(emit(c, "loaded", [language |-> currentLanguage]),
                                "returned")
       ELSE /\ done' = Finished(emit(c, "error",
                                     [code |-> "INIT_FAILED", message |-> c.error]),
                                "returned")
            /\ UNCHANGED document
    /\ isLoading' = FALSE
    /\ calls' = Without(i)
    /\ UNCHANGED currentLanguage

\* InitResume with isLoading cleared at the end of the try, not in a finally.
InitResume_NoFinally(c, i, table) ==
    /\ IF c.loadResult = "ok"
       THEN /\ isInitialized' = TRUE
            /\ document' = autoScan(document, table, currentLanguage)
            /\ isLoading' = FALSE
            /\ done' = Finished(emit(c, "loaded", [language |-> currentLanguage]),
                                "returned")
       ELSE /\ done' = Finished(emit(c, "error",
                                     [code |-> "INIT_FAILED", message |-> c.error]),
                                "returned")
            /\ UNCHANGED <<isInitialized, isLoading, document>>
    /\ calls' = Without(i)
    /\ UNCHANGED currentLanguage

\* InitResume without `this.isInitialized = true`.
InitResume_NeverReady(c, i, table) ==
    LET ok == c.loadResult = "ok"
        after == IF ok
                 THEN emit(c, "loaded", [language |-> currentLanguage])
                 ELSE emit(c, "error", [code |-> "INIT_FAILED", message |-> c.error])
    IN  /\ document' = IF ok THEN autoScan(document, table, currentLanguage)
                       ELSE document
        /\ done' = Finished(after, "returned")
        /\ isLoading' = FALSE
        /\ calls' = Without(i)
        /\ UNCHANGED <<isInitialized, currentLanguage>>

\* InitResume that leaves isInitialized false when the load has failed.
InitResume_ReadyFollowsLoad(c, i, table) ==
    LET ok == c.loadResult = "ok"
        tried == IF ok THEN emit(c, "loaded", [language |-> currentLanguage]) ELSE c
        caught == ~ok \/ tried.thrown # Null
        after == IF caught
                 THEN emit(tried, "error",
                           [code |-> "INIT_FAILED",
                            message |-> IF ok THEN tried.thrown ELSE c.error])
                 ELSE tried
    IN  /\ isInitialized' = ok
        /\ IF ok
           THEN document' = autoScan(document, table, currentLanguage)
           ELSE UNCHANGED document
        /\ done' = Finished(after, IF after.thrown # Null THEN "threw" ELSE "returned")
        /\ isLoading' = FALSE
        /\ calls' = Without(i)
        /\ UNCHANGED currentLanguage

\* init() after `await this.fetchStrings(...)` for the call c, the i-th in
\* flight, whose fetchStrings has settled: try, catch and finally. table is
\* this.data.languages as fetchStrings left it. The emit of loaded is in the
\* try: an Error leaving it would be caught like one of fetchStrings.
InitResume(c, i, table) ==
    LET ok == c.loadResult = "ok"
        tried == IF ok THEN emit(c, "loaded", [language |-> currentLanguage]) ELSE c
        caught == ~ok \/ tried.thrown # Null
        after == IF caught
                 THEN emit(tried, "error",
                           [code |-> "INIT_FAILED",
                            message |-> IF ok THEN tried.thrown ELSE c.error])
                 ELSE tried
    IN  /\ IF ok
           THEN /\ isInitialized' = TRUE
                /\ document' = autoScan(document, table, currentLanguage)
           ELSE UNCHANGED <<isInitialized, document>>
        /\ done' = Finished(after, IF after.thrown # Null THEN "threw" ELSE "returned")
        /\ isLoading' = FALSE
        /\ calls' = Without(i)
        /\ UNCHANGED currentLanguage

\* SetLanguageResume without the rollback of currentLanguage.
SetLanguageResume_NoRollback(c, i, table) ==
    /\ IF c.loadResult = "ok"
       THEN /\ document' = scan(document, table, currentLanguage, isInitialized)
            /\ done' = Finished(emit(c, "language-changed",
                                     [from |-> c.previousLanguage, to |-> c.languageCode]),
                                "returned")
       ELSE /\ done' = Finished(emit(c, "error",
                                     [code |-> "LANGUAGE_CHANGE_FAILED",
                                      message |-> c.error]),
                                "threw")
            /\ UNCHANGED document
    /\ calls' = Without(i)
    /\ UNCHANGED <<isInitialized, isLoading, currentLanguage>>

\* SetLanguageResume with the rollback of currentLanguage in a finally.
SetLanguageResume_AlwaysRollback(c, i, table) ==
    LET ok == c.loadResult = "ok"
        after == IF ok
                 THEN emit(c, "language-changed",
                           [from |-> c.previousLanguage, to |-> c.languageCode])
                 ELSE emit(c, "error",
                           [code |-> "LANGUAGE_CHANGE_FAILED", message |-> c.error])
    IN  /\ document' = IF ok
                       THEN scan(document, table, currentLanguage, isInitialized)
                       ELSE document
        /\ currentLanguage' = c.previousLanguage
        /\ done' = Finished(after, IF ok THEN "returned" ELSE "threw")
        /\ calls' = Without(i)
        /\ UNCHANGED <<isInitialized, isLoading>>

\* SetLanguageResume whose catch restores the language and throws without
\* emitting error.
SetLanguageResume_SilentFailure(c, i, table) ==
    LET ok == c.loadResult = "ok"
        tried == IF ok
                 THEN emit(c, "language-changed",
                           [from |-> c.previousLanguage, to |-> c.languageCode])
                 ELSE c
        caught == ~ok \/ tried.thrown # Null
    IN  /\ document' = IF ok
                       THEN scan(document, table, currentLanguage, isInitialized)
                       ELSE document
        /\ currentLanguage' = IF caught THEN c.previousLanguage ELSE currentLanguage
        /\ done' = Finished(tried, IF caught THEN "threw" ELSE "returned")
        /\ calls' = Without(i)
        /\ UNCHANGED <<isInitialized, isLoading>>

\* setLanguage() after `await this.fetchStrings(...)`: try and catch; scan and
\* the emit of language-changed are in the try.
SetLanguageResume(c, i, table) ==
    LET ok == c.loadResult = "ok"
        tried == IF ok
                 THEN emit(c, "language-changed",
                           [from |-> c.previousLanguage, to |-> c.languageCode])
                 ELSE c
        caught == ~ok \/ tried.thrown # Null
        after == IF caught
                 THEN emit(tried, "error",
                           [code |-> "LANGUAGE_CHANGE_FAILED",
                            message |-> IF ok THEN tried.thrown ELSE c.error])
                 ELSE tried
    IN  /\ document' = IF ok
                       THEN scan(document, table, currentLanguage, isInitialized)
                       ELSE document
        /\ currentLanguage' = IF caught THEN c.previousLanguage ELSE currentLanguage
        /\ done' = Finished(after, IF caught THEN "threw" ELSE "returned")
        /\ calls' = Without(i)
        /\ UNCHANGED <<isInitialized, isLoading>>

\* reload() after `await this.fetchStrings(...)`; a rejection of fetchStrings
\* rejects reload, there is no try around the await.
ReloadResume(c, i, table) ==
    LET ok == c.loadResult = "ok"
        after == IF ok
                 THEN emit(c, "loaded", [language |-> currentLanguage, reloaded |-> TRUE])
                 ELSE c
    IN  /\ document' = IF ok
                       THEN scan(document, table, currentLanguage, isInitialized)
                       ELSE document
        /\ done' = Finished(after, IF ~ok \/ after.thrown # Null THEN "threw"
                                   ELSE "returned")
        /\ calls' = Without(i)
        /\ UNCHANGED <<isInitialized, isLoading, currentLanguage>>

\* The operation of the call c after its await.
ResumeOp(c, i, table) ==
    CASE c.op = "init" -> InitResume(c, i, table)
      [] c.op = "setLanguage" -> SetLanguageResume(c, i, table)
      [] c.op = "reload" -> ReloadResume(c, i, table)

\* The Transport call of the i-th call in flight ends in the response r:
\* fetchStrings runs to its end and the operation that awaits it resumes in the
\* microtasks of the same task. setItemThrows: see saveToCacheLS; it is an
\* input only of the steps that call setItem.
FetchComplete(i, r, setItemThrows) ==
    /\ UNCHANGED listeners
    /\ exists
    /\ i \in DOMAIN calls
    /\ calls[i].pc = "awaitFetch"
    /\ r \in Responses(calls[i].languageCode)
    /\ setItemThrows => (r.success /\ config.cache /\ lsAvailable)
    /\ LET c == SettledCall(calls[i], r)
           tid == IF c.source = "network" /\ ~Falsy(r.data.tenant_id)
                  THEN r.data.tenant_id ELSE tenant_id
           save == c.source = "network" /\ config.cache
           table == IF c.loadResult = "ok" THEN mergeData(languages, c.data)
                    ELSE languages
       IN  /\ tenant_id' = tid
           /\ languages' = table
           /\ localStorage' = IF save
                              THEN saveToCacheLS(localStorage, tid, c.languageCode,
                                                 r.data, setItemThrows)
                              ELSE localStorage
           /\ memoryCache' = IF save
                             THEN saveToCacheMem(memoryCache, tid, c.languageCode,
                                                 r.data, setItemThrows)
                             ELSE memoryCache
           /\ ResumeOp(c, i, table)
    /\ UNCHANGED <<exists, ctorError, config, lsAvailable, now, nCalls>>

\* The i-th call in flight, whose fetchStrings settled on a cache hit when the
\* call was made, resumes after its await.
Resume(i) ==
    /\ UNCHANGED listeners
    /\ exists
    /\ i \in DOMAIN calls
    /\ calls[i].pc = "resume"
    /\ ResumeOp(calls[i], i, languages)
    /\ UNCHANGED <<exists, ctorError, config, tenant_id, languages, memoryCache,
                   localStorage, lsAvailable, now, nCalls>>

\* scan() that emits loaded when its pass has run.
Scan_Emits ==
    /\ UNCHANGED listeners
    /\ exists
    /\ document' = scan(document, languages, currentLanguage, isInitialized)
    /\ done' = emit([NoCall EXCEPT !.op = "scan", !.outcome = "returned",
                                   !.readyBefore = isInitialized],
                    "loaded", [language |-> currentLanguage])
    /\ UNCHANGED <<exists, ctorError, config, tenant_id, languages, isInitialized,
                   currentLanguage, isLoading, memoryCache, localStorage, lsAvailable,
                   now, calls, nCalls>>

\* scan(), called by the page.
Scan ==
    /\ UNCHANGED listeners
    /\ exists
    /\ document' = scan(document, languages, currentLanguage, isInitialized)
    /\ done' = [NoCall EXCEPT !.op = "scan", !.outcome = "returned",
                              !.readyBefore = isInitialized]
    /\ UNCHANGED <<exists, ctorError, config, tenant_id, languages, isInitialized,
                   currentLanguage, isLoading, memoryCache, localStorage, lsAvailable,
                   now, calls, nCalls>>

\* The callbacks registered with on(), over all events.
RECURSIVE Registered(_, _)
Registered(subs, events) ==
    IF events = {} THEN 0
    ELSE LET event == CHOOSE e \in events : TRUE
         IN  Len(subs[event]) + Registered(subs, events \ {event})

\* subscribers.filter(cb => cb !== callback)
RECURSIVE Filter(_, _)
Filter(subscribers, callback) ==
    IF subscribers = << >> THEN << >>
    ELSE IF Head(subscribers) = callback THEN Filter(Tail(subscribers), callback)
    ELSE <<Head(subscribers)>> \o Filter(Tail(subscribers), callback)

\* on() and off() as the call that has just ended.
BusCall(op, error) ==
    [NoCall EXCEPT !.op = op, !.error = error,
                   !.outcome = IF error = Null THEN "returned" ELSE "threw"]

\* on(event, callback). this.listeners is an object literal: for a name of
\* Object.prototype this.listeners[event] is the inherited member, which is
\* truthy and has no push.
On(event, callback) ==
    /\ exists
    /\ IF event \in Events /\ callback \in Callbacks
       THEN /\ Registered(listeners, Events) < MaxListeners
            /\ listeners' = [listeners EXCEPT ![event] = Append(@, callback)]
            /\ done' = BusCall("on", Null)
       ELSE /\ UNCHANGED listeners
            /\ done' = BusCall("on",
                               IF event \in ObjectPrototype /\ callback \in Callbacks
                               THEN "this.listeners[event].push is not a function"
                               ELSE Null)
    /\ UNCHANGED <<exists, ctorError, config, tenant_id, languages, isInitialized,
                   currentLanguage, isLoading, memoryCache, localStorage, lsAvailable,
                   document, now, calls, nCalls>>

\* off(event, callback); the inherited member of a name of Object.prototype
\* has no filter.
Off(event, callback) ==
    /\ exists
    /\ IF event \in Events
       THEN /\ listeners' = [listeners EXCEPT ![event] = Filter(@, callback)]
            /\ done' = BusCall("off", Null)
       ELSE /\ UNCHANGED listeners
            /\ done' = BusCall("off",
                               IF event \in ObjectPrototype
                               THEN "this.listeners[event].filter is not a function"
                               ELSE Null)
    /\ UNCHANGED <<exists, ctorError, config, tenant_id, languages, isInitialized,
                   currentLanguage, isLoading, memoryCache, localStorage, lsAvailable,
                   document, now, calls, nCalls>>

\* The document has been parsed: the listeners init has added run.
DOMContentLoaded ==
    /\ UNCHANGED listeners
    /\ document.readyState = "loading"
    /\ document' = [RunListeners(document, document.listeners)
                      EXCEPT !.readyState = "complete", !.listeners = 0]
    /\ done' = NoCall
    /\ UNCHANGED <<exists, ctorError, config, tenant_id, languages, isInitialized,
                   currentLanguage, isLoading, memoryCache, localStorage, lsAvailable,
                   now, calls, nCalls>>

\* Time passes.
Tick ==
    /\ UNCHANGED listeners
    /\ now < MaxTime
    /\ now' = now + 1
    /\ done' = NoCall
    /\ UNCHANGED <<exists, ctorError, config, tenant_id, languages, isInitialized,
                   currentLanguage, isLoading, memoryCache, localStorage, lsAvailable,
                   document, calls, nCalls>>

Next ==
    \/ \E c \in Configs : Construct(c) /\ UNCHANGED outside
    \/ InitCall /\ UNCHANGED outside
    \/ \E languageCode \in LangCodes : SetLanguageCall(languageCode) /\ UNCHANGED outside
    \/ ReloadCall /\ UNCHANGED outside
    \/ \E i \in 1..MaxCalls, r \in AllResponses, setItemThrows \in BOOLEAN :
          FetchComplete(i, r, setItemThrows) /\ UNCHANGED outside
    \/ \E i \in 1..MaxCalls : Resume(i) /\ UNCHANGED outside
    \/ Scan /\ UNCHANGED outside
    \/ DOMContentLoaded /\ UNCHANGED outside
    \/ Tick /\ UNCHANGED outside

Spec == Init /\ [][Next]_vars

\* t(key, languageCode), called by the page.
Translate(key, languageCode) ==
    /\ exists
    /\ done' = [NoCall EXCEPT !.op = "t", !.outcome = "returned",
                              !.value = t(key, languageCode)]
    /\ UNCHANGED <<exists, ctorError, config, tenant_id, languages, isInitialized,
                   currentLanguage, isLoading, memoryCache, listeners, localStorage,
                   lsAvailable, document, now, calls, nCalls>>

\* The engine whose operations do not interleave: init, setLanguage, reload
\* and scan are called when no call is in flight.
SeqNext ==
    \/ \E c \in Configs : Construct(c) /\ UNCHANGED outside
    \/ calls = << >> /\ InitCall /\ UNCHANGED outside
    \/ \E languageCode \in LangCodes : calls = << >> /\ SetLanguageCall(languageCode)
          /\ UNCHANGED outside
    \/ calls = << >> /\ ReloadCall /\ UNCHANGED outside
    \/ \E i \in 1..MaxCalls, r \in AllResponses, setItemThrows \in BOOLEAN :
          FetchComplete(i, r, setItemThrows) /\ UNCHANGED outside
    \/ \E i \in 1..MaxCalls : Resume(i) /\ UNCHANGED outside
    \/ calls = << >> /\ Scan /\ UNCHANGED outside
    \/ DOMContentLoaded /\ UNCHANGED outside
    \/ Tick /\ UNCHANGED outside

SeqSpec == Init /\ [][SeqNext]_vars

\* The configurations of the engine whose subscribers are followed.
BusConfigs == { [token |-> "tok", tenantSlug |-> "acme"] }

\* The engine of one page with its subscribers: one construction, then on(),
\* off() and the operations that emit.
BusNext ==
    \/ \E c \in BusConfigs : ~exists /\ Construct(c) /\ UNCHANGED outside
    \/ \E event \in EventArgs, callback \in CallbackArgs : On(event, callback)
          /\ UNCHANGED outside
    \/ \E event \in EventArgs, callback \in CallbackArgs : Off(event, callback)
          /\ UNCHANGED outside
    \/ InitCall /\ UNCHANGED outside
    \/ \E languageCode \in LangCodes : SetLanguageCall(languageCode) /\ UNCHANGED outside
    \/ ReloadCall /\ UNCHANGED outside
    \/ \E i \in 1..MaxCalls, r \in AllResponses, setItemThrows \in BOOLEAN :
          FetchComplete(i, r, setItemThrows) /\ UNCHANGED outside
    \/ \E i \in 1..MaxCalls : Resume(i) /\ UNCHANGED outside

\* The host of the engine with subscribers has no localStorage and no
\* document: the cache is the in-memory map.
BusInit == Init /\ ~lsAvailable

BusSpec == BusInit /\ [][BusNext]_vars

\* The subscriber of language-changed at a step that calls setLanguage: it
\* notes getLanguage() when no call is in flight.
ObserveCall ==
    observed' = IF calls = << >> THEN [before |-> currentLanguage, to |-> Null]
                ELSE observed

\* The subscriber of language-changed at a step that ends a call: it notes
\* the `to` of the event when one is emitted.
ObserveEnd ==
    observed' = IF \E n \in DOMAIN done'.emitted : done'.emitted[n].type = "language-changed"
                THEN [observed EXCEPT !.to =
                        done'.emitted[CHOOSE n \in DOMAIN done'.emitted :
                                         done'.emitted[n].type = "language-changed"].data.to]
                ELSE observed

\* The configurations TenlixorProvider is mounted with.
ProviderConfigs ==
    { [token |-> "tok", tenantSlug |-> "acme"],
      [token |-> "tok", tenantSlug |-> "acme", language |-> "tr"] }

\* The first render of TenlixorProvider: the useState initializers, the
\* engine among them.
Mount(c) ==
    /\ Construct(c)
    /\ provider' = [stage |-> "mounted",
                    currentLanguage |-> IF Falsy(Get(c, "language")) THEN "en"
                                        ELSE c.language,
                    availableLanguages |-> {},
                    isReady |-> FALSE,
                    isLoading |-> TRUE,
                    error |-> Null]
    /\ UNCHANGED <<pipe, observed, revision>>

\* The effect of TenlixorProvider, first part: initializeSdk() runs up to
\* `await instance.init()`.
Effect ==
    /\ provider.stage = "mounted"
    /\ InitCall
    /\ provider' = [provider EXCEPT !.stage = "effect", !.isLoading = TRUE]
    /\ UNCHANGED <<pipe, observed, revision>>

\* The effect of TenlixorProvider, second part, in the same task: the three
\* listeners are registered.
Subscribe ==
    /\ provider.stage = "effect"
    /\ listeners' = [listeners EXCEPT !["loaded"] = Append(@, "onLoaded"),
                                      !["language-changed"] = Append(@, "onLanguageChanged"),
                                      !["error"] = Append(@, "onError")]
    /\ provider' = [provider EXCEPT !.stage = "subscribed"]
    /\ UNCHANGED <<exists, ctorError, config, tenant_id, languages, isInitialized,
                   currentLanguage, isLoading, memoryCache, localStorage, lsAvailable,
                   document, now, calls, done, nCalls, pipe, observed, revision>>

\* The callback cb is among those the event e was handed to.
Heard(e, cb) == \E n \in DOMAIN e.invoked : e.invoked[n] = cb

\* onLoaded, onLanguageChanged and onError of the provider p for the event e;
\* available is instance.getAvailableLanguages().
Handle(p, e, available) ==
    IF e.type = "loaded" /\ Heard(e, "onLoaded")
    THEN [p EXCEPT !.isReady = TRUE, !.availableLanguages = available]
    ELSE IF e.type = "language-changed" /\ Heard(e, "onLanguageChanged")
    THEN [p EXCEPT !.currentLanguage = e.data.to]
    ELSE IF e.type = "error" /\ Heard(e, "onError")
    THEN [p EXCEPT !.error = e.data.message]
    ELSE p

\* The provider p after its listeners have handled the first n of emitted.
RECURSIVE Handled(_, _, _, _)
Handled(p, emitted, n, available) ==
    IF n = 0 THEN p
    ELSE Handle(Handled(p, emitted, n - 1, available), emitted[n], available)

\* The provider p after the call c of the engine has settled: initializeSdk
\* after `await instance.init()` (try, catch, finally), and the catch of the
\* setLanguage of the context.
Settled(p, c, available) ==
    IF c.op = "init" /\ c.loadResult # "none"
    THEN IF c.outcome = "returned"
         THEN [p EXCEPT !.isReady = TRUE, !.availableLanguages = available,
                        !.error = Null, !.isLoading = FALSE]
         ELSE [p EXCEPT !.error = c.thrown, !.isLoading = FALSE]
    ELSE IF c.op = "setLanguage" /\ c.outcome = "threw"
    THEN [p EXCEPT !.error = IF c.error # Null THEN c.error ELSE c.thrown]
    ELSE p

\* The provider at a step that ends a call of the engine: its listeners run
\* inside emit, then the code that awaited the call.
ProviderEnd ==
    provider' = Settled(Handled(provider, done'.emitted, Len(done'.emitted),
                                getAvailableLanguages'),
                        done', getAvailableLanguages')

\* A page with TenlixorProvider: the provider is mounted, its effect runs,
\* and components call setLanguage of the context.
ProviderNext ==
    \/ \E c \in ProviderConfigs : Mount(c)
    \/ Effect
    \/ Subscribe
    \/ \E languageCode \in LangCodes :
          /\ provider.stage = "subscribed"
          /\ SetLanguageCall(languageCode)
          /\ UNCHANGED outside
    \/ \E i \in 1..MaxCalls, r \in AllResponses, setItemThrows \in BOOLEAN :
          /\ provider.stage = "subscribed"
          /\ FetchComplete(i, r, setItemThrows)
          /\ ProviderEnd
          /\ UNCHANGED <<pipe, observed, revision>>
    \/ \E i \in 1..MaxCalls :
          /\ provider.stage = "subscribed"
          /\ Resume(i)
          /\ ProviderEnd
          /\ UNCHANGED <<pipe, observed, revision>>

ProviderSpec == Init /\ [][ProviderNext]_vars

\* The keys and the language codes the template hands to the pipe.
PipeKeys == {"k1", "k3"}
PipeLangArgs == {Undefined, "tr"}

\* transform(key, languageCode) of the TxrTranslatePipe instance, the engine
\* being the instance set with setTenlixorInstance.
Transform(key, languageCode) ==
    /\ exists
    /\ LET lang == IF Falsy(languageCode) THEN getLanguage ELSE languageCode
           cached == key = pipe.lastKey /\ lang = pipe.lastLanguage
           value == IF cached THEN pipe.lastValue ELSE t(key, languageCode)
       IN  /\ pipe' = IF cached THEN pipe
                      ELSE [lastKey |-> key, lastLanguage |-> lang, lastValue |-> value]
           /\ done' = [NoCall EXCEPT !.op = "transform", !.outcome = "returned",
                                     !.value = value]
    /\ UNCHANGED <<exists, ctorError, config, tenant_id, languages, isInitialized,
                   currentLanguage, isLoading, memoryCache, listeners, localStorage,
                   lsAvailable, document, now, calls, nCalls, provider, observed,
                   revision>>

\* An Angular page: the engine is constructed and set as the instance of the
\* pipe, the operations that load are called, and the template is rendered.
PipeNext ==
    \/ \E c \in BusConfigs : ~exists /\ Construct(c) /\ UNCHANGED outside
    \/ InitCall /\ UNCHANGED outside
    \/ \E languageCode \in LangCodes : SetLanguageCall(languageCode) /\ UNCHANGED outside
    \/ ReloadCall /\ UNCHANGED outside
    \/ \E i \in 1..MaxCalls, r \in AllResponses, setItemThrows \in BOOLEAN :
          FetchComplete(i, r, setItemThrows) /\ UNCHANGED outside
    \/ \E i \in 1..MaxCalls : Resume(i) /\ UNCHANGED outside
    \/ \E key \in PipeKeys, languageCode \in PipeLangArgs : Transform(key, languageCode)

PipeSpec == Init /\ [][PipeNext]_vars

\* The translations of en are revised on the server.
Publish ==
    /\ revision = 1
    /\ revision' = 2
    /\ UNCHANGED <<exists, ctorError, config, tenant_id, languages, isInitialized,
                   currentLanguage, isLoading, memoryCache, listeners, localStorage,
                   lsAvailable, document, now, calls, done, nCalls, pipe, provider,
                   observed>>

\* The engine of one page whose translations are revised on the server: one
\* construction, init, reload and scan.
RefreshNext ==
    \/ \E c \in BusConfigs : ~exists /\ Construct(c) /\ UNCHANGED outside
    \/ InitCall /\ UNCHANGED outside
    \/ ReloadCall /\ UNCHANGED outside
    \/ \E i \in 1..MaxCalls, r \in AllResponses, setItemThrows \in BOOLEAN :
          FetchComplete(i, r, setItemThrows) /\ UNCHANGED outside
    \/ \E i \in 1..MaxCalls : Resume(i) /\ UNCHANGED outside
    \/ Scan /\ UNCHANGED outside
    \/ DOMContentLoaded /\ UNCHANGED outside
    \/ Publish

RefreshSpec == Init /\ [][RefreshNext]_vars

\* The engine whose language is changed, with a subscriber of
\* language-changed: calls of setLanguage that may overlap.
OverlapNext ==
    \/ \E c \in BusConfigs : /\ Construct(c)
                             /\ observed' = [before |-> currentLanguage', to |-> Null]
                             /\ UNCHANGED <<pipe, provider, revision>>
    \/ \E languageCode \in LangCodes :
          SetLanguageCall(languageCode) /\ ObserveCall /\ UNCHANGED <<pipe, provider, revision>>
    \/ \E i \in 1..MaxCalls, r \in AllResponses, setItemThrows \in BOOLEAN :
          FetchComplete(i, r, setItemThrows) /\ ObserveEnd /\ UNCHANGED <<pipe, provider, revision>>
    \/ \E i \in 1..MaxCalls : Resume(i) /\ ObserveEnd /\ UNCHANGED <<pipe, provider, revision>>
    \/ Tick /\ UNCHANGED outside

OverlapSpec == Init /\ [][OverlapNext]_vars

\* The engine of one page with its resolver and its scanner: one
\* construction, the operations that load, and the calls of t and of scan.
ResolverNext ==
    \/ \E c \in BusConfigs : ~exists /\ Construct(c) /\ UNCHANGED outside
    \/ InitCall /\ UNCHANGED outside
    \/ \E languageCode \in LangCodes : SetLanguageCall(languageCode) /\ UNCHANGED outside
    \/ ReloadCall /\ UNCHANGED outside
    \/ \E i \in 1..MaxCalls, r \in AllResponses, setItemThrows \in BOOLEAN :
          FetchComplete(i, r, setItemThrows) /\ UNCHANGED outside
    \/ \E i \in 1..MaxCalls : Resume(i) /\ UNCHANGED outside
    \/ Scan /\ UNCHANGED outside
    \/ DOMContentLoaded /\ UNCHANGED outside
    \/ \E key \in AllKeys, languageCode \in LangArgs :
          Translate(key, languageCode) /\ UNCHANGED outside

ResolverSpec == Init /\ [][ResolverNext]_vars

\* The Transport call ends whenever it is pending, and a resumption that is
\* queued as a microtask runs.
FairSpec ==
    /\ Spec
    /\ WF_vars(\E i \in 1..MaxCalls, r \in AllResponses, setItemThrows \in BOOLEAN :
                  FetchComplete(i, r, setItemThrows) /\ UNCHANGED outside)
    /\ WF_vars(\E i \in 1..MaxCalls : Resume(i) /\ UNCHANGED outside)

(* ---------------------------------------------------------------- claims *)

\* The one event the finished call c has emitted is of this type.
EmittedOnly(c, type) == Len(c.emitted) = 1 /\ c.emitted[1].type = type

\* The finished call c has emitted one error event with this code and nothing else.
EmittedError(c, code) == EmittedOnly(c, "error") /\ c.emitted[1].data.code = code

\* The Transport call of the finished call c failed.
TransportFailed(c) ==
    c.transport = 1 /\ ~(c.response.status = 200 /\ c.response.success)

\* C1: when setLanguage(code), code other than the current language, ends with
\* its load failed, getLanguage() is the language that was current when it was
\* called, the call has emitted one error event LANGUAGE_CHANGE_FAILED and no
\* language-changed event, and the call has thrown to its caller.
C1_SetLanguageRollback ==
    (done.op = "setLanguage" /\ done.loadResult = "failed")
        => /\ getLanguage = done.previousLanguage
           /\ EmittedError(done, "LANGUAGE_CHANGE_FAILED")
           /\ done.outcome = "threw"

C1_Witness ==
    /\ done.op = "setLanguage"
    /\ done.loadResult = "failed"
    /\ TransportFailed(done)
    /\ done.languageCode # getLanguage

\* The cache entry the Cache Store holds for languageCode under the key in
\* force, whatever its age: the durable store is read first.
HasEntry(languageCode) ==
    \/ lsAvailable /\ getCacheKey(tenant_id, languageCode) \in DOMAIN localStorage
    \/ getCacheKey(tenant_id, languageCode) \in DOMAIN memoryCache
EntryOf(languageCode) ==
    IF lsAvailable /\ getCacheKey(tenant_id, languageCode) \in DOMAIN localStorage
    THEN JSONparse(localStorage[getCacheKey(tenant_id, languageCode)])
    ELSE memoryCache[getCacheKey(tenant_id, languageCode)]

\* The table holds, for every language block of the body data, exactly the
\* pairs of the block.
Merged(data) ==
    \A n \in 1..Len(data.languages) :
       LET b == data.languages[n]
       IN  /\ b.code \in DOMAIN languages
           /\ \/ "resources" \notin DOMAIN b /\ languages[b.code] = EmptyMap
              \/ /\ "resources" \in DOMAIN b
                 /\ DOMAIN languages[b.code] = {b.resources[m].key : m \in 1..Len(b.resources)}
                 /\ \A m \in 1..Len(b.resources) :
                       languages[b.code][b.resources[m].key] = b.resources[m].value

C3_ReloadFailureCaught ==
    (done.op = "reload" /\ done.loadResult = "failed")
        => /\ done.outcome = "returned"
           /\ EmittedOnly(done, "error")

\* C4: when the load of init() fails, init emits one error event INIT_FAILED
\* and no loaded event, isReady() stays false when it was false as init was
\* called, and init returns normally.
C4_InitFailure ==
    (done.op = "init" /\ done.loadResult = "failed")
        => /\ EmittedError(done, "INIT_FAILED")
           /\ done.outcome = "returned"
           /\ ~done.readyBefore => ~isReady

C4_Witness ==
    /\ done.op = "init"
    /\ done.loadResult = "failed"
    /\ ~done.readyBefore

\* The language codes of the body data.
CodesOf(data) == {data.languages[n].code : n \in 1..Len(data.languages)}

\* The keys of the body data, over all its language blocks.
KeysOf(data) ==
    UNION { IF "resources" \in DOMAIN data.languages[n]
            THEN {data.languages[n].resources[m].key :
                    m \in 1..Len(data.languages[n].resources)}
            ELSE {} : n \in 1..Len(data.languages) }

\* C5: after a successful init() that is the first call on a fresh instance
\* over an empty cache, isReady() is true, the call has emitted loaded with the
\* current language, getAvailableLanguages() is the set of the language codes
\* of the response, t(k) is the value of the response for every key k of the
\* current language, and t(k) is k for every key absent from the response.
C5_InitSuccess ==
    (done.op = "init" /\ done.loadResult = "ok" /\ nCalls = 1)
        => /\ isReady
           /\ EmittedOnly(done, "loaded")
           /\ done.emitted[1].data.language = getLanguage
           /\ getAvailableLanguages = CodesOf(done.response.data)
           /\ \A n \in 1..Len(done.response.data.languages) :
                 LET b == done.response.data.languages[n]
                 IN  (b.code = getLanguage /\ "resources" \in DOMAIN b)
                        => \A m \in 1..Len(b.resources) :
                              t(b.resources[m].key, Undefined) = b.resources[m].value
           /\ \A k \in Keys \ KeysOf(done.response.data) : t(k, Undefined) = k

\* C5 for the resources of the response whose value is not the empty
\* string (t takes an empty value for a missing one).
C5_InitSuccessNonEmpty ==
    (done.op = "init" /\ done.loadResult = "ok" /\ nCalls = 1)
        => /\ isReady
           /\ EmittedOnly(done, "loaded")
           /\ done.emitted[1].data.language = getLanguage
           /\ getAvailableLanguages = CodesOf(done.response.data)
           /\ \A n \in 1..Len(done.response.data.languages) :
                 LET b == done.response.data.languages[n]
                 IN  (b.code = getLanguage /\ "resources" \in DOMAIN b)
                        => \A m \in 1..Len(b.resources) :
                              b.resources[m].value # ""
                                 => t(b.resources[m].key, Undefined) = b.resources[m].value
           /\ \A k \in Keys \ KeysOf(done.response.data) : t(k, Undefined) = k

\* A call of init is made in this step.
InitCalled ==
    /\ nCalls' = nCalls + 1
    /\ \/ done'.op = "init"
       \/ Len(calls') = Len(calls) + 1 /\ calls'[Len(calls')].op = "init"

\* C6: an init() call made while an init() is in flight (isLoading) reads no
\* cache, calls no Transport, emits nothing and changes no state; so at most
\* one fetch made by init is pending at any time.
C6_ReentrantInit ==
    /\ [][(isLoading /\ InitCalled)
            => /\ done'.op = "init"
               /\ done'.outcome = "returned"
               /\ done'.transport = 0
               /\ done'.cacheReads = 0
               /\ done'.emitted = << >>
               /\ UNCHANGED <<exists, ctorError, config, tenant_id, languages,
                              isInitialized, currentLanguage, isLoading, memoryCache,
                              listeners, localStorage, document, calls>>]_vars
    /\ [](Cardinality({i \in DOMAIN calls :
                         calls[i].op = "init" /\ calls[i].pc = "awaitFetch"}) <= 1)

C6_Witness ==
    /\ isLoading
    /\ done.op = "init"
    /\ done.loadResult = "none"
    /\ \E i \in DOMAIN calls : calls[i].op = "init" /\ calls[i].pc = "awaitFetch"

\* C7: an init() that has set isLoading clears it: isLoading is false when
\* init finishes, whether its load succeeded or failed, and, the Transport
\* call ending at some time, isLoading does not stay true forever.
C7_LoadingCleared ==
    /\ isLoading ~> ~isLoading
    /\ []((done.op = "init" /\ done.loadResult # "none") => ~isLoading)

C7_Witness ==
    /\ done.op = "init"
    /\ done.loadResult = "failed"
    /\ TransportFailed(done)
    /\ ~isLoading

\* What C8 asks of the state the constructor leaves for the configuration c.
Constructed(c) ==
    IF Falsy(Get(c, "token")) \/ Falsy(Get(c, "tenantSlug"))
    THEN ~exists /\ ctorError # Null
    ELSE /\ exists
         /\ ctorError = Null
         /\ ~isReady
         /\ getLanguage = (IF "language" \in DOMAIN c THEN c.language ELSE "en")
         /\ getAvailableLanguages = {}

Absent(k) == \A l \in DOMAIN languages : k \notin DOMAIN languages[l]

\* C9: for every key absent from every loaded language table and every
\* languageCode, given or not, t(key, languageCode) is the key.
C9_MissingKey ==
    exists => \A k \in AllKeys, l \in LangArgs : Absent(k) => t(k, l) = k

\* C9 for the keys that are not a property name of Object.prototype.
C9_MissingOwnKey ==
    exists => \A k \in Keys, l \in LangArgs : Absent(k) => t(k, l) = k

C9_Witness ==
    /\ exists
    /\ {"en", "tr"} \subseteq DOMAIN languages
    /\ languages["en"] # EmptyMap
    /\ Absent("k4")
    /\ ~Absent("k1")

\* The language t resolves with for the argument l.
LangUsed(l) == IF Falsy(l) THEN currentLanguage ELSE l

\* The key k is not in the table of the language l (which may not be loaded).
NotIn(k, l) == l \notin DOMAIN languages \/ k \notin DOMAIN languages[l]

\* C10: for every key in the table of the fallback language and not in the
\* table of the language used, the two languages differing, t is the value of
\* the fallback table; when the language used is the fallback language, a key
\* that is not in its table resolves to itself.
C10_Fallback ==
    exists =>
      \A k \in Keys, l \in LangArgs :
         /\ ( /\ LangUsed(l) # config.fallbackLanguage
              /\ NotIn(k, LangUsed(l))
              /\ ~NotIn(k, config.fallbackLanguage) )
               => t(k, l) = languages[config.fallbackLanguage][k]
         /\ ( /\ LangUsed(l) = config.fallbackLanguage
              /\ NotIn(k, LangUsed(l)) )
               => t(k, l) = k

\* C10 for the keys whose value in the fallback table is not the empty string.
C10_FallbackNonEmpty ==
    exists =>
      \A k \in Keys, l \in LangArgs :
         /\ ( /\ LangUsed(l) # config.fallbackLanguage
              /\ NotIn(k, LangUsed(l))
              /\ ~NotIn(k, config.fallbackLanguage)
              /\ languages[config.fallbackLanguage][k] # "" )
               => t(k, l) = languages[config.fallbackLanguage][k]
         /\ ( /\ LangUsed(l) = config.fallbackLanguage
              /\ NotIn(k, LangUsed(l)) )
               => t(k, l) = k

\* C11: for every loaded language L and every key k of its table, whatever
\* the value v = table[L][k] the server supplied (the empty string included)
\* and whatever the fallback table holds for k, t(k, L) is v.
C11_ExactMatch ==
    exists =>
      \A l \in DOMAIN languages : \A k \in DOMAIN languages[l] :
         t(k, l) = languages[l][k]

\* An operation that emits has ended: init, setLanguage or reload.
Emitting == done.op \in {"init", "setLanguage", "reload"} /\ done.pc = "done"

\* C12: every emit of a finished operation has called the subscribers of its
\* event, each once for each registration and in the order of registration,
\* those after a throwing subscriber included; no Error of a subscriber leaves
\* emit, so the operation whose load succeeded returns with the events of a
\* success and nothing else, and init leaves the engine ready and not loading.
C12_EmitIsolation ==
    Emitting =>
      /\ \A n \in DOMAIN done.emitted :
            done.emitted[n].invoked = listeners[done.emitted[n].type]
      /\ done.thrown = Null
      /\ (done.loadResult = "ok" /\ ~(done.op = "init" /\ done.readyBefore)) =>
            /\ done.outcome = "returned"
            /\ EmittedOnly(done, IF done.op = "setLanguage"
                                 THEN "language-changed" ELSE "loaded")
            /\ done.op = "init" => isInitialized /\ ~isLoading

\* init has emitted loaded to a subscriber that throws and then to one
\* registered after it.
C12_Witness ==
    /\ done.op = "init"
    /\ done.outcome = "returned"
    /\ EmittedOnly(done, "loaded")
    /\ done.emitted[1].invoked = <<"g", "f">>

\* The subscribers other than callback, in their order.
Others(subscribers, callback) ==
    SelectSeq(subscribers, LAMBDA cb : cb # callback)

\* C13: on(event, cb) returns, and it appends cb to the subscribers of event
\* when event is one of the three events and cb is a function and leaves the
\* subscribers as they are otherwise; off(event, cb) returns, after it cb is
\* not among the subscribers of event, the other subscribers of event keep
\* their order and the subscribers of the other events are as they were.
C13_OnOff ==
    [][\A event \in EventArgs, callback \in CallbackArgs :
          /\ On(event, callback) =>
                /\ done'.outcome = "returned"
                /\ listeners' = IF event \in Events /\ callback \in Callbacks
                                THEN [listeners EXCEPT ![event] = Append(@, callback)]
                                ELSE listeners
          /\ Off(event, callback) =>
                /\ done'.outcome = "returned"
                /\ \A e \in Events :
                      listeners'[e] = IF e = event
                                      THEN Others(listeners[e], callback)
                                      ELSE listeners[e]]_vars

\* The tenant identifiers a cache key is made of.
TenantIds == {Null, "t1"}

\* The cache entries kept under the key of tid and languageCode, in the
\* durable store and in the in-memory map.
EntriesAt(tid, languageCode) ==
    LET cacheKey == getCacheKey(tid, languageCode)
    IN  (IF lsAvailable /\ cacheKey \in DOMAIN localStorage
         THEN {JSONparse(localStorage[cacheKey])} ELSE {})
        \cup (IF cacheKey \in DOMAIN memoryCache THEN {memoryCache[cacheKey]} ELSE {})

\* getFromCache(languageCode, ignoreTTL) of an engine whose tenant is tid.
ReadCache(tid, languageCode, ignoreTTL) ==
    getFromCache(localStorage, memoryCache, tid, languageCode, ignoreTTL)

\* C14: an entry written at T is returned by a read without ignoreTTL at
\* every time t with t - T < cacheTTL and by a read with ignoreTTL at any
\* time; a read without ignoreTTL returns nothing when t - T >= cacheTTL for
\* the entries kept under the key.
C14_Freshness ==
    exists =>
      \A tid \in TenantIds, languageCode \in LangCodes :
         /\ \A entry \in EntriesAt(tid, languageCode) :
               /\ ReadCache(tid, languageCode, TRUE) = [hit |-> TRUE, data |-> entry.data]
               /\ now - entry.timestamp < config.cacheTTL =>
                     ReadCache(tid, languageCode, FALSE) = [hit |-> TRUE, data |-> entry.data]
         /\ (\A entry \in EntriesAt(tid, languageCode) :
                now - entry.timestamp >= config.cacheTTL) =>
               ReadCache(tid, languageCode, FALSE) = Miss

\* An entry written at 0 with cacheTTL 1 is read at 1: the load has missed it
\* on the first read and, the Transport call having failed, has taken it on
\* the read with ignoreTTL.
C14_Witness ==
    /\ exists
    /\ config.cacheTTL = 1
    /\ now = 1
    /\ \E entry \in EntriesAt(tenant_id, done.languageCode) : entry.timestamp = 0
    /\ done.source = "stale"
    /\ done.cacheReads = 2
    /\ ~ReadCache(tenant_id, done.languageCode, FALSE).hit
    /\ ReadCache(tenant_id, done.languageCode, TRUE).hit

\* The call that has just ended has loaded its language from the network with
\* the cache on: fetchStrings has called saveToCache(languageCode, data).
Saved ==
    /\ exists
    /\ config.cache
    /\ Emitting
    /\ done.source = "network"
    /\ done.loadResult = "ok"

\* C15: after saveToCache(L, payload) the in-memory map holds an entry of L
\* with the payload, whether or not the write to localStorage failed, and the
\* load that saved has not failed and has emitted no error event.
C15_PutBothTiers ==
    Saved =>
      /\ getCacheKey(tenant_id, done.languageCode) \in DOMAIN memoryCache
      /\ memoryCache[getCacheKey(tenant_id, done.languageCode)].data = done.data
      /\ done.outcome = "returned"
      /\ \A n \in DOMAIN done.emitted : done.emitted[n].type # "error"

\* The part of C15 about the load: the failure of the write is swallowed.
C15_WriteFailureSwallowed ==
    Saved =>
      /\ done.outcome = "returned"
      /\ \A n \in DOMAIN done.emitted : done.emitted[n].type # "error"

\* The engine is a new instance: it has loaded nothing and has had no
\* response, so it knows no tenant.
NewInstance ==
    /\ exists
    /\ tenant_id = Null
    /\ memoryCache = EmptyMap
    /\ languages = EmptyMap
    /\ ~isInitialized

\* The entry an earlier instance has written to localStorage for languageCode
\* after a response that carried the tenant identifier t1.
WrittenWithTenant(languageCode) ==
    IF lsAvailable /\ getCacheKey("t1", languageCode) \in DOMAIN localStorage
    THEN {JSONparse(localStorage[getCacheKey("t1", languageCode)])}
    ELSE {}

\* C16: a new instance with the cache on finds the entry an earlier instance
\* wrote to the durable store after a response with a tenant identifier: its
\* init() within the TTL of the entry is served from the cache without a
\* Transport call, and its init() whose Transport call fails is served from
\* the entry as stale fallback.
C16_CrossInstance ==
    [][/\ (/\ NewInstance /\ config.cache /\ calls = << >> /\ InitCalled
           /\ \E entry \in WrittenWithTenant(currentLanguage) :
                 now - entry.timestamp < config.cacheTTL)
          => /\ Len(calls') = 1
             /\ calls'[1].source = "cache"
             /\ calls'[1].transport = 0
       /\ (/\ NewInstance /\ config.cache /\ Len(calls) = 1
           /\ calls[1].op = "init" /\ calls[1].pc = "awaitFetch"
           /\ WrittenWithTenant(calls[1].languageCode) # {}
           /\ calls' = << >> /\ done'.op = "init"
           /\ ~(done'.response.status = 200 /\ done'.response.success))
          => /\ done'.source = "stale"
             /\ done'.loadResult = "ok"]_vars

\* scan() of the engine as it is, over the document doc.
ScanOf(doc) == scan(doc, languages, currentLanguage, isInitialized)

\* The elements of the document that carry the marker data-txr-resolved.
Resolved == {n \in DOMAIN document.body : document.body[n].resolved}

\* C17: when the engine is ready, the tree after scan() and scan() again,
\* nothing else having changed, is the tree after one scan(): texts and the
\* markers resolved, key and lang of every node. Every write of scan sets a
\* marker or a language that was not there, so the second scan writes
\* nothing.
C17_ScanIdempotent ==
    (exists /\ isInitialized /\ document # NoDocument) =>
       ScanOf(ScanOf(document)) = ScanOf(document)

\* The document has been scanned in the ready engine: elements are resolved,
\* by the attribute and by a text node, and scan() leaves it as it is.
C17_Witness ==
    /\ exists
    /\ isInitialized
    /\ done.op = "scan"
    /\ done.readyBefore
    /\ document # NoDocument
    /\ \E n \in Resolved : document.body[n].tag = "h1"
    /\ \E n \in Resolved : document.body[n].tag # "h1"
    /\ ScanOf(document) = document

\* scan() has just been called by the page on an engine that was not ready.
ScannedNotReady == done.op = "scan" /\ ~done.readyBefore

\* C18: scan() called while isInitialized is false changes nothing: no text
\* is rewritten and no marker is added, the scan of the engine as it is being
\* the document as it is, and the engine is left as it was.
C18_ScanNotReady ==
    /\ [](exists /\ ~isInitialized => ScanOf(document) = document)
    /\ [][(Scan /\ ~isInitialized) =>
             UNCHANGED <<document, languages, tenant_id, isInitialized,
                         currentLanguage, isLoading, memoryCache, localStorage>>]_vars

\* scan() has been called on an engine that is not ready and has a table to
\* translate with, over the page that has elements to resolve.
C18_Witness ==
    /\ ScannedNotReady
    /\ ~isInitialized
    /\ languages # EmptyMap
    /\ document # NoDocument
    /\ document.body = Page

\* C19: setLanguage(code) with code the current language returns at once:
\* no cache read, no Transport call, no scan, no event, and the engine, its
\* table, its cache and the document are as they were.
C19_SetSameLanguage ==
    [][(exists /\ SetLanguageCall(currentLanguage))
         => /\ done'.op = "setLanguage"
            /\ done'.outcome = "returned"
            /\ done'.transport = 0
            /\ done'.cacheReads = 0
            /\ done'.emitted = << >>
            /\ UNCHANGED <<exists, ctorError, config, tenant_id, languages,
                           isInitialized, currentLanguage, isLoading, memoryCache,
                           listeners, localStorage, document, calls>>]_vars

\* setLanguage has been called with the current language on an engine that has
\* loaded a table.
C19_Witness ==
    /\ done.op = "setLanguage"
    /\ done.loadResult = "none"
    /\ done.outcome = "returned"
    /\ done.languageCode = currentLanguage
    /\ languages # EmptyMap

\* setLanguage(code), code other than the language that was current, has
\* ended with its promise resolved.
LanguageChanged ==
    /\ done.op = "setLanguage"
    /\ done.pc = "done"
    /\ done.outcome = "returned"
    /\ done.languageCode # done.previousLanguage

\* C20: when operations do not interleave and setLanguage(code), code other
\* than the current language, succeeds, getLanguage() is code, the call has
\* emitted one event, language-changed {from: the language before, to: code},
\* the body loaded for code is merged in the table, and no error event has
\* been emitted.
C20_SetLanguageSuccess ==
    LanguageChanged =>
      /\ getLanguage = done.languageCode
      /\ Len(done.emitted) = 1
      /\ done.emitted[1].type = "language-changed"
      /\ done.emitted[1].data = [from |-> done.previousLanguage, to |-> done.languageCode]
      /\ Merged(done.data)
      /\ done.languageCode \in getAvailableLanguages

\* setLanguage('tr') has succeeded on the engine whose language was en.
C20_Witness ==
    /\ LanguageChanged
    /\ done.previousLanguage = "en"
    /\ getLanguage = "tr"
    /\ "tr" \in getAvailableLanguages

\* reload() has ended with its load served by the Transport.
Reloaded ==
    /\ exists
    /\ done.op = "reload"
    /\ done.pc = "done"
    /\ done.loadResult = "ok"
    /\ done.source = "network"

\* C21: reload() always calls the Transport for currentLanguage, having
\* removed, when the cache is on, the cache entry of currentLanguage from
\* both tiers, also when a fresh entry was there; when it has succeeded the
\* table holds the response, the cache that is on holds a new entry of the
\* language and the call has emitted
\* loaded {language: currentLanguage, reloaded: true}.
C21_ReloadBypassesCache ==
    /\ [][(exists /\ ReloadCall) =>
             /\ config.cache =>
                   /\ ~(lsAvailable /\ getCacheKey(tenant_id, currentLanguage)
                                          \in DOMAIN localStorage')
                   /\ getCacheKey(tenant_id, currentLanguage) \notin DOMAIN memoryCache'
             /\ calls'[Len(calls')].op = "reload"
             /\ calls'[Len(calls')].pc = "awaitFetch"
             /\ calls'[Len(calls')].transport = 1
             /\ calls'[Len(calls')].languageCode = currentLanguage]_vars
    /\ [](Reloaded =>
             /\ Merged(done.data)
             /\ config.cache =>
                   /\ HasEntry(done.languageCode)
                   /\ EntryOf(done.languageCode).data = done.data
             /\ done.outcome = "returned"
             /\ Len(done.emitted) = 1
             /\ done.emitted[1].type = "loaded"
             /\ done.emitted[1].data = [language |-> currentLanguage, reloaded |-> TRUE])

\* The part of C21 that does not depend on the cache being written: reload()
\* always calls the Transport, with the cache on it has removed the entry
\* of currentLanguage from both tiers first, and when it has succeeded the
\* table holds the response and loaded {reloaded: true} has been emitted.
C21_ReloadCallsTransport ==
    /\ [][(exists /\ ReloadCall) =>
             /\ config.cache =>
                   /\ ~(lsAvailable /\ getCacheKey(tenant_id, currentLanguage)
                                          \in DOMAIN localStorage')
                   /\ getCacheKey(tenant_id, currentLanguage) \notin DOMAIN memoryCache'
             /\ calls'[Len(calls')].op = "reload"
             /\ calls'[Len(calls')].pc = "awaitFetch"
             /\ calls'[Len(calls')].transport = 1
             /\ calls'[Len(calls')].languageCode = currentLanguage]_vars
    /\ [](Reloaded =>
             /\ Merged(done.data)
             /\ done.outcome = "returned"
             /\ Len(done.emitted) = 1
             /\ done.emitted[1].type = "loaded"
             /\ done.emitted[1].data = [language |-> currentLanguage, reloaded |-> TRUE])

\* C22: currentLanguage is the configured language of a new engine and is
\* changed only by a setLanguage that succeeds, to its target: no other step,
\* the call of setLanguage whose load is still in flight included, changes
\* what getLanguage() returns.
C22_LanguageMutation ==
    [][(getLanguage' # getLanguage) =>
          \/ \E c \in Configs : Construct(c)
          \/ /\ done'.op = "setLanguage"
             /\ done'.outcome = "returned"
             /\ done'.languageCode = getLanguage']_vars

\* What C22 gives when no call is in flight: a current language other than
\* the configured one has been loaded by the setLanguage that set it.
C22_SettledLanguage ==
    (exists /\ calls = << >> /\ getLanguage # config.language) =>
       getLanguage \in getAvailableLanguages

\* C23 as stated: isReady() is false in a new engine and true once a load
\* has succeeded, whether init, setLanguage or reload has made it.
C23_ReadyAfterLoad ==
    /\ [][(\E c \in Configs : Construct(c)) => ~isReady']_vars
    /\ [](Emitting /\ done.loadResult = "ok" => isReady)

\* C23, amended: isReady() is false in a new engine, it is true once a load
\* made by init has succeeded, and no other step of the engine changes it: a
\* load made by setLanguage or reload leaves it as it is.
C23_ReadyAfterInit ==
    /\ [][(\E c \in Configs : Construct(c)) => ~isReady']_vars
    /\ [](done.op = "init" /\ done.pc = "done" /\ done.loadResult = "ok" => isReady)
    /\ [][(isReady' # isReady) =>
             \/ \E c \in Configs : Construct(c)
             \/ done'.op = "init" /\ done'.loadResult = "ok"]_vars

\* The first load of the engine has been made by init and has succeeded.
C23_Witness ==
    /\ done.op = "init"
    /\ done.pc = "done"
    /\ done.loadResult = "ok"
    /\ ~done.readyBefore
    /\ isReady

\* init() has ended and the server has answered its fetch with HTTP 401.
InitUnauthorized ==
    /\ done.op = "init"
    /\ done.pc = "done"
    /\ done.transport = 1
    /\ done.response.status = 401

\* C24: whenever the server answers the fetch of init() with 401, the call
\* has emitted an error event and has not thrown to its caller.
C24_UnauthorizedSurfaced ==
    InitUnauthorized =>
       /\ \E n \in DOMAIN done.emitted : done.emitted[n].type = "error"
       /\ done.outcome = "returned"

\* What holds of C24: when the server answers the fetch of init() with 401,
\* init does not throw to its caller; when no cache entry serves as stale
\* fallback it has emitted one error event, INIT_FAILED with the message of
\* the 401, and when one does it has emitted loaded and no error event.
C24_UnauthorizedOrStale ==
    InitUnauthorized =>
       /\ done.outcome = "returned"
       /\ done.source # "stale" =>
             /\ done.loadResult = "failed"
             /\ EmittedError(done, "INIT_FAILED")
             /\ done.emitted[1].data.message = "UNAUTHORIZED: Invalid API token"
       /\ done.source = "stale" =>
             /\ done.loadResult = "ok"
             /\ EmittedOnly(done, "loaded")

\* The node m is inside the element n and is part of its text: no element
\* between n and m has had its content replaced.
RECURSIVE Within(_, _, _)
Within(nodes, m, n) ==
    LET p == nodes[m].parent
    IN  /\ p # 0
        /\ \/ p = n
           \/ nodes[p].text = Undefined /\ Within(nodes, p, n)

\* textContent of the n-th node, as the texts it is made of in document
\* order.
TextContent(nodes, n) ==
    IF nodes[n].text # Undefined THEN <<nodes[n].text>>
    ELSE LET parts == SelectSeq([m \in 1..Len(nodes) |-> m],
                                LAMBDA m : nodes[m].text # Undefined /\ Within(nodes, m, n))
         IN  [k \in 1..Len(parts) |-> nodes[parts[k]].text]

\* The elements in the document that carry a non-empty data-txr-key and the
\* marker data-txr-resolved.
ResolvedByKey(nodes) ==
    {n \in DOMAIN nodes : /\ nodes[n].kind = "element"
                          /\ ~Removed(nodes, n)
                          /\ nodes[n].resolved
                          /\ ~Falsy(nodes[n].key)}

\* The step ends a setLanguage that succeeds, on a ready engine with a
\* document: its scan has run.
LanguageChangeScanned ==
    /\ LanguageChanged'
    /\ Len(calls') < Len(calls)
    /\ isInitialized
    /\ document # NoDocument

\* The elements resolved before the step that are in the document after it
\* have the text t(key, currentLanguage) and data-txr-lang = currentLanguage.
UpToDate ==
    \A n \in ResolvedByKey(document.body) \cap ResolvedByKey(document'.body) :
       /\ TextContent(document'.body, n)
             = <<tOver(languages', document'.body[n].key, currentLanguage')>>
       /\ document'.body[n].lang = currentLanguage'

\* C25: the scan of a setLanguage that succeeds brings every element that
\* was resolved, with a non-empty data-txr-key, up to date: its text is
\* t(key, currentLanguage) and its data-txr-lang is currentLanguage; and it
\* removes no element from the document.
C25_Rescan ==
    [][LanguageChangeScanned =>
          /\ UpToDate
          /\ \A n \in DOMAIN document.body :
                (document.body[n].kind = "element" /\ ~Removed(document.body, n))
                    => ~Removed(document'.body, n)]_vars

\* The first part of C25 alone: the elements that were resolved are up to
\* date after the scan of a setLanguage that succeeds.
C25_UpToDate == [][LanguageChangeScanned => UpToDate]_vars

\* The bodies a load can merge.
Bodies == {Payloads[l] : l \in LangCodes}

\* The step merges the body data: the fetchStrings of a call has taken it
\* from the Transport or from the cache as stale fallback, or the call has
\* found it fresh in the cache.
Loads(data) ==
    \/ /\ Len(calls') < Len(calls)
       /\ done'.loadResult = "ok"
       /\ done'.source \in {"network", "stale"}
       /\ done'.data = data
    \/ /\ Len(calls') = Len(calls) + 1
       /\ calls'[Len(calls')].pc = "resume"
       /\ calls'[Len(calls')].data = data

\* The tables of the languages that are not in the body data are after the
\* step what they were.
OthersKept(data) ==
    /\ DOMAIN languages' = DOMAIN languages \cup CodesOf(data)
    /\ \A a \in DOMAIN languages \ CodesOf(data) : languages'[a] = languages[a]

\* C26 as stated: a load replaces the table of every language of its body
\* with the pairs of the block, leaves every other table as it was, and so
\* changes t(k, A) for no key k and no loaded language A that the body does
\* not contain.
C26_MergeFrame ==
    [][\A data \in Bodies :
          Loads(data) =>
             /\ Merged(data)'
             /\ OthersKept(data)
             /\ \A a \in DOMAIN languages \ CodesOf(data) : \A k \in AllKeys :
                   tOver(languages', k, a) = tOver(languages, k, a)]_vars

\* C26, amended: a load replaces the table of every language of its body,
\* leaves every other table as it was, and changes t(k, A), A a loaded
\* language the body does not contain, only when the body contains the
\* fallback language and the table of A holds no non-empty value for k.
C26_MergeFrameFallback ==
    [][\A data \in Bodies :
          Loads(data) =>
             /\ Merged(data)'
             /\ OthersKept(data)
             /\ \A a \in DOMAIN languages \ CodesOf(data) : \A k \in AllKeys :
                   (tOver(languages', k, a) # tOver(languages, k, a)) =>
                       /\ config.fallbackLanguage \in CodesOf(data)
                       /\ Falsy(Get(languages[a], k))]_vars

\* The body of tr has been merged over the tables of en and de: the table
\* of de, which the body holds without resources, is empty and the table of
\* en is there.
C26_Witness ==
    /\ Emitting
    /\ done.loadResult = "ok"
    /\ done.data = PayloadTr
    /\ "en" \in DOMAIN languages
    /\ languages["en"] # EmptyMap
    /\ "de" \in DOMAIN languages
    /\ languages["de"] = EmptyMap

\* The key-value pairs of a table, and those of the resources list of a
\* language block.
TablePairs(table) == {<<k, table[k]>> : k \in DOMAIN table}
BlockPairs(block) ==
    IF "resources" \in DOMAIN block
    THEN {<<block.resources[m].key, block.resources[m].value>> :
             m \in 1..Len(block.resources)}
    ELSE {}

\* C27: after a merge, the table of the code of each language block of the
\* body holds exactly the key-value pairs of the block's resources list, none
\* missing and none added; a block whose list is empty or missing yields an
\* empty table.
C27_MergeRoundTrip ==
    [][\A data \in Bodies :
          Loads(data) =>
             \A n \in 1..Len(data.languages) :
                /\ data.languages[n].code \in DOMAIN languages'
                /\ TablePairs(languages'[data.languages[n].code])
                      = BlockPairs(data.languages[n])]_vars

\* The body of tr has been merged: the table of tr holds its two pairs, that
\* of the empty value among them, and the tables of the blocks without
\* resources and with an empty list are empty.
C27_Witness ==
    /\ done.loadResult = "ok"
    /\ done.data = PayloadTr
    /\ "tr" \in DOMAIN languages
    /\ TablePairs(languages["tr"]) = {<<"k2", "">>, <<"k3", "Merhaba">>}
    /\ "it" \in DOMAIN languages
    /\ languages["it"] = EmptyMap
    /\ "de" \in DOMAIN languages
    /\ languages["de"] = EmptyMap

\* Caching is enabled and a tier holds, under the key in force, an entry of
\* the language that has not expired.
FreshEntry(languageCode) ==
    /\ config.cache
    /\ \E e \in EntriesAt(tenant_id, languageCode) : Fresh(e, FALSE)

\* The step is the call of an init or of a setLanguage that loads the
\* language: fetchStrings starts over the stores as they are.
StartsLoad(languageCode) ==
    /\ Len(calls') = Len(calls) + 1
    /\ calls'[Len(calls')].op \in {"init", "setLanguage"}
    /\ calls'[Len(calls')].languageCode = languageCode

\* C28: with caching enabled, a load of L that finds an entry of L that has
\* not expired under the key in force merges the body of the entry and
\* returns without a Transport call and without writing to either tier: the
\* entry and its timestamp are after the load what they were.
C28_CacheHit ==
    [][/\ \A l \in LangCodes :
            (FreshEntry(l) /\ StartsLoad(l)) =>
               /\ calls'[Len(calls')].pc = "resume"
               /\ calls'[Len(calls')].transport = 0
               /\ calls'[Len(calls')].source = "cache"
               /\ \E e \in EntriesAt(tenant_id, l) :
                     /\ Fresh(e, FALSE)
                     /\ calls'[Len(calls')].data = e.data
                     /\ Merged(e.data)'
               /\ localStorage' = localStorage
               /\ memoryCache' = memoryCache
       /\ (Len(calls') < Len(calls) /\ done'.source = "cache") =>
               /\ done'.transport = 0
               /\ localStorage' = localStorage
               /\ memoryCache' = memoryCache]_vars

\* A load has ended on a cache hit at a time later than the time its entry
\* was written at.
C28_Witness ==
    /\ done.op \in {"init", "setLanguage"}
    /\ done.loadResult = "ok"
    /\ done.source = "cache"
    /\ done.transport = 0
    /\ HasEntry(done.languageCode)
    /\ EntryOf(done.languageCode).timestamp < now

\* C29: with caching disabled no step of the engine reads, writes or clears a
\* tier; every call that loads a language awaits a Transport call, and a
\* Transport call that fails makes the load fail, an entry of the language
\* in the durable store or none.
C29_CacheDisabled ==
    [][(exists /\ ~config.cache) =>
          /\ localStorage' = localStorage
          /\ memoryCache' = memoryCache
          /\ (Len(calls') = Len(calls) + 1) =>
                /\ calls'[Len(calls')].pc = "awaitFetch"
                /\ calls'[Len(calls')].transport = 1
                /\ calls'[Len(calls')].cacheReads = 0
          /\ (Len(calls') < Len(calls) /\ done'.op # "none") =>
                /\ done'.transport = 1
                /\ done'.cacheReads = 0
                /\ done'.source \in {"network", "none"}
                /\ ~(done'.response.status = 200 /\ done'.response.success)
                      => done'.loadResult = "failed"]_vars

\* With caching disabled a load has failed while the durable store holds an
\* entry of its language under the key in force.
C29_Witness ==
    /\ exists
    /\ ~config.cache
    /\ done.op \in {"init", "setLanguage", "reload"}
    /\ done.loadResult = "failed"
    /\ lsAvailable
    /\ getCacheKey(tenant_id, done.languageCode) \in DOMAIN localStorage

\* The step ends a Transport call in a response of a non-2xx status or of a
\* body with success false.
Refused ==
    /\ Len(calls') < Len(calls)
    /\ done'.op \in {"init", "setLanguage", "reload"}
    /\ \/ done'.response.status \in {401, 500}
       \/ done'.response.status = 200 /\ ~done'.response.success

\* C30: a response of a non-2xx status or of a body with success false leaves
\* the table, the stored tenant identifier and both cache tiers as they were.
C30_RefusedNoEffect ==
    [][Refused =>
          /\ languages' = languages
          /\ tenant_id' = tenant_id
          /\ localStorage' = localStorage
          /\ memoryCache' = memoryCache]_vars

\* What holds of such a response: the tenant identifier and the tiers are as
\* they were, and the table is as it was or, on the stale fallback, has the
\* body of a cache entry merged into it; nothing of the body of the response
\* is in it.
C30_RefusedOrStale ==
    [][Refused =>
          /\ tenant_id' = tenant_id
          /\ localStorage' = localStorage
          /\ memoryCache' = memoryCache
          /\ \/ languages' = languages
             \/ /\ config.cache
                /\ done'.source = "stale"
                /\ \E e \in EntriesAt(tenant_id, done'.languageCode) :
                      languages' = mergeData(languages, e.data)]_vars

\* The step is a call of t, a call of scan by the page, or the scan that
\* runs when the document has been parsed.
Reads ==
    \/ done'.op \in {"t", "scan"}
    \/ document.readyState = "loading" /\ document'.readyState = "complete"

\* C31: a call of t and a scan leave the table, currentLanguage,
\* isInitialized, isLoading, the subscriber lists, the stored tenant
\* identifier and both cache tiers as they were, and emit no event.
C31_ReadOnly ==
    [][Reads =>
          /\ UNCHANGED <<languages, currentLanguage, isInitialized, isLoading,
                         listeners, tenant_id, memoryCache, localStorage>>
          /\ done'.emitted = << >>]_vars

\* t has returned a value of the table on an engine whose scan has resolved
\* an element of the document.
C31_Witness ==
    /\ done.op = "t"
    /\ done.value = "Welcome"
    /\ isInitialized
    /\ Resolved # {}

\* C32: isInitialized of an instance never goes back to false: when isReady()
\* is true before a step of init, setLanguage, reload, scan or of time, it is
\* true after it, the load of the step having succeeded or failed.
C32_ReadyMonotonic ==
    [][(exists /\ isReady /\ ~(\E c \in Configs : Construct(c))) => isReady']_vars

\* A load has failed on an engine that was ready and is ready.
C32_Witness ==
    /\ isReady
    /\ done.op \in {"init", "setLanguage", "reload"}
    /\ done.pc = "done"
    /\ done.loadResult = "failed"
    /\ done.op = "init" => done.readyBefore

\* The step ends a call of init, setLanguage or reload whose load has failed.
LoadFailed ==
    /\ Len(calls') < Len(calls)
    /\ done'.op \in {"init", "setLanguage", "reload"}
    /\ done'.loadResult = "failed"

\* The step calls init, setLanguage or reload, which goes to the Transport.
StartsFetch ==
    /\ Len(calls') = Len(calls) + 1
    /\ calls'[Len(calls')].pc = "awaitFetch"

\* C33: a call of init, setLanguage or reload whose load fails leaves every
\* language table as it was, at the step that calls the Transport and at the
\* step that ends the call; and no step of an instance removes a language
\* from getAvailableLanguages().
C33_FailedLoadKeepsTable ==
    [][/\ (LoadFailed \/ StartsFetch) => languages' = languages
       /\ ~(\E c \in Configs : Construct(c)) =>
             getAvailableLanguages \subseteq getAvailableLanguages']_vars

\* A load has failed on an engine that holds the tables of an earlier load.
C33_Witness ==
    /\ done.op \in {"init", "setLanguage", "reload"}
    /\ done.pc = "done"
    /\ done.loadResult = "failed"
    /\ {"en", "de"} \subseteq getAvailableLanguages
    /\ languages["en"] # EmptyMap
    /\ languages["de"] # EmptyMap

\* C34: whatever the interleaving of the calls of setLanguage and whatever
\* their loads end in, when none is in flight any more getLanguage() is the
\* `to` of the last language-changed event emitted since the first of them
\* was made, or, no such event having been emitted, the language that was
\* current when the first of them was made.
C34_OverlapConsistent ==
    (exists /\ calls = << >>) =>
       getLanguage = (IF observed.to # Null THEN observed.to ELSE observed.before)

\* C35: every body of a language holding a block of that language, the
\* language a loaded event names is in getAvailableLanguages() when the event
\* is emitted, calls of setLanguage or reload made while the fetch of init is
\* in flight included.
C35_LoadedIsLoaded ==
    Emitting =>
       \A n \in DOMAIN done.emitted :
          done.emitted[n].type = "loaded" =>
             done.emitted[n].data.language \in getAvailableLanguages

\* What holds of the event: it names getLanguage() as it is when the event is
\* emitted, and the language the call has loaded is in
\* getAvailableLanguages().
C35_LoadedNamesCurrent ==
    Emitting =>
       \A n \in DOMAIN done.emitted :
          done.emitted[n].type = "loaded" =>
             /\ done.emitted[n].data.language = getLanguage
             /\ done.languageCode \in getAvailableLanguages

\* The call that has ended is an init that was not a re-entrant no-op, or a
\* setLanguage for a language other than the current one: its load has
\* succeeded or failed.
Terminal(op) ==
    /\ done.op = op
    /\ done.pc = "done"
    /\ done.loadResult \in {"ok", "failed"}

\* C36: an init that is not a re-entrant no-op has emitted, when it ends, one
\* event and no more: loaded when its load has succeeded, error INIT_FAILED
\* when it has failed; a setLanguage for a language other than the current
\* one has emitted one event and no more: language-changed when its load has
\* succeeded, error LANGUAGE_CHANGE_FAILED when it has failed.
C36_OneTerminalEvent ==
    /\ Terminal("init") =>
          IF done.loadResult = "ok" THEN EmittedOnly(done, "loaded")
          ELSE EmittedError(done, "INIT_FAILED")
    /\ Terminal("setLanguage") =>
          IF done.loadResult = "ok" THEN EmittedOnly(done, "language-changed")
          ELSE EmittedError(done, "LANGUAGE_CHANGE_FAILED")

\* A setLanguage whose load has failed has emitted its one event, error, to
\* a subscriber.
C36_Witness ==
    /\ Terminal("setLanguage")
    /\ done.loadResult = "failed"
    /\ EmittedError(done, "LANGUAGE_CHANGE_FAILED")
    /\ done.emitted[1].invoked # << >>

\* The step ends a reload that has loaded from the Transport, on a ready
\* engine with a document: its scan has run.
ReloadScanned ==
    /\ Reloaded'
    /\ Len(calls') < Len(calls)
    /\ isInitialized
    /\ document # NoDocument

\* The load of the step has changed what t(key) returns in the current
\* language.
Changed(key) ==
    tOver(languages', key, currentLanguage') # tOver(languages, key, currentLanguage)

\* C37: after a reload that succeeds on a ready engine and whose response
\* changes the value of the key k in the current language, every element
\* that was resolved with the key k shows t(k, currentLanguage) once the scan
\* of reload has run.
C37_ReloadRefreshes ==
    [][ReloadScanned =>
          \A n \in ResolvedByKey(document.body) \cap ResolvedByKey(document'.body) :
             Changed(document.body[n].key) =>
                TextContent(document'.body, n)
                   = <<tOver(languages', document'.body[n].key, currentLanguage')>>]_vars

\* What holds of the scan of reload: an element that was resolved in the
\* current language keeps the text it had.
C37_ReloadKeepsResolved ==
    [][ReloadScanned =>
          \A n \in ResolvedByKey(document.body) \cap ResolvedByKey(document'.body) :
             document.body[n].lang = currentLanguage =>
                TextContent(document'.body, n) = TextContent(document.body, n)]_vars

\* C38: once the initialization effect of TenlixorProvider has run to its
\* end, the isReady of the context is true only if isReady() of the engine is
\* true, and the error of the context is set when init has failed.
C38_ProviderFollowsEngine ==
    /\ (provider.stage = "subscribed" /\ ~provider.isLoading) =>
          (provider.isReady => isReady)
    /\ (provider.stage = "subscribed" /\ done.op = "init" /\ done.pc = "done"
           /\ done.loadResult = "failed") =>
          provider.error # Null

\* C39: whatever operations of the engine and calls of transform have come
\* before, transform(key, languageCode) of the pipe returns what
\* t(key, languageCode) of the engine returns when it is called.
C39_PipeAgrees ==
    [][\A key \in PipeKeys, languageCode \in PipeLangArgs :
          Transform(key, languageCode) => done'.value = t(key, languageCode)]_vars

\* What holds of the pipe: transform returns what t returns when the key or
\* the language differs from those of the call before, and what the call
\* before returned otherwise.
C39_PipeCaches ==
    [][\A key \in PipeKeys, languageCode \in PipeLangArgs :
          Transform(key, languageCode) =>
             done'.value =
                (IF /\ key = pipe.lastKey
                    /\ pipe.lastLanguage = (IF Falsy(languageCode) THEN getLanguage
                                            ELSE languageCode)
                 THEN pipe.lastValue
                 ELSE t(key, languageCode))]_vars
====
